---- MODULE Spec2Model ----
(***************************************************************************)
(* A model of the devcontainer resolution pipeline of devcontainer-go:     *)
(* MergeDevContainers, LoadDevContainerWithExtends,                        *)
(* Manager.applyCustomMounts, ExpandVariables, resolveLocalEnvVars,        *)
(* BuildDockerRunCommand, DockerRunConfig.ToDockerRunArgs and              *)
(* DockerRunConfig.Validate; and of ExtractDockerImage, the lifecycle      *)
(* hooks (ParseLifecycleCommand, GetLifecycleScript),                      *)
(* DockerClient.CreateContainer and TerminalAttachment.Start.              *)
(*                                                                         *)
(* Conventions.  A Go string is a sequence of lexemes (TLA+ strings): ""   *)
(* is <<>>, "type=bind" is <<"type=", "bind">>.  A Go pointer that may be  *)
(* nil is a sequence of length at most one (NilPtr, Ptr(v)).  A Go         *)
(* interface{} holding a JSON value is a record with a kind.  Objects that *)
(* Go shares by reference and writes through (maps, *NonComposeBase) live  *)
(* in heaps indexed by address, address 0 being nil.                       *)
(***************************************************************************)
EXTENDS Integers, Sequences, FiniteSets, TLC

VARIABLES
  mpc,        \* merge scenario: position of the caller
  inBase,     \* merge scenario: the input given for base
  inOverride, \* merge scenario: the input given for override
  envHeap,    \* heap of map[string]string objects (ContainerEnv)
  ncbHeap,    \* heap of NonComposeBase structs
  base,       \* *DevContainer passed as base (NilPtr or Ptr(descriptor))
  override,   \* *DevContainer passed as override
  result      \* *DevContainer returned by MergeDevContainers

mergeVars == <<mpc, inBase, inOverride, envHeap, ncbHeap, base, override, result>>

VARIABLES
  bpc,          \* build scenario: position of the caller
  run,          \* build scenario: 1 for the first resolution, 2 for the repeat
  inDc,         \* the descriptor as the caller first holds it
  wsRoot,       \* the workspace root passed as workspaceFolder
  hostEnv,      \* the host environment (os.LookupEnv)
  managerMounts, \* Manager.customMounts, set by ConfigureMounts
  devContainer, \* the caller's *DevContainer (Manager.devContainer), which the callees write into
  buildErr,     \* the error BuildDockerRunCommand returned, "" for nil
  missing,      \* the names listed by the unresolved-variable error
  config,       \* the DockerRunConfig returned
  valid,        \* the error config.Validate() returned, "" for nil
  args,         \* the argument vector config.ToDockerRunArgs() returned
  prevConfig,   \* first resolution: its outcome, kept for comparison
  prevArgs

buildVars ==
  <<bpc, run, inDc, wsRoot, hostEnv, managerMounts, devContainer, buildErr, missing,
    config, valid, args, prevConfig, prevArgs>>

VARIABLES
  epc,    \* extends scenario: position of the caller
  fs,     \* the files on disk: path -> a missing file or a document with its extends target
  stack,  \* the active calls of LoadDevContainerWithExtends, innermost last
  ret     \* what the call that returned last returned: (*DevContainer, error)

extVars == <<epc, fs, stack, ret>>

VARIABLES
  rpc,    \* localEnv scenario: position of the caller
  rSegs,  \* the pieces the input string is written from
  rEnv,   \* the host environment
  rOut    \* what resolveLocalEnvVars returned: (string, []string)

resVars == <<rpc, rSegs, rEnv, rOut>>

VARIABLES
  lpc,      \* lifecycle scenario: position of the caller
  lDc,      \* the descriptor's six lifecycle hooks: field -> interface{} value
  lPhase,   \* the phase the caller asks a script for
  lHook,    \* the hook whose value the caller parses on its own
  lParsed,  \* what ParseLifecycleCommand returned for it: (*LifecycleCommand, error)
  lOut      \* what GetLifecycleScript returned: (string, error)

lifeVars == <<lpc, lDc, lPhase, lHook, lParsed, lOut>>

VARIABLES
  request,  \* what CreateContainer asked the engine for: container.Config, HostConfig, name
  created   \* what CreateContainer returned: (string, error)

createVars == <<request, created>>

VARIABLES
  tpc,         \* terminal scenario: position of TerminalAttachment.Start
  startErr,    \* the error Start returned, "" for nil
  isTerminal,  \* whether standard input is a terminal
  termMode,    \* the mode the terminal is in: "cooked" or "raw"
  oldState,    \* t.oldState
  respOpen,    \* whether the hijacked connection is open
  ctxDone,     \* whether the caller's context is cancelled
  resizeDone,  \* whether cancelResize was called
  resizePc,    \* position of the HandleResize goroutine
  resizes,     \* window-size signals HandleResize has handled
  copyPc,      \* position of each I/O copy goroutine
  copyErr,     \* what each goroutine's io.Copy returned
  errCh,       \* the buffered error channel
  waitPc,      \* what ContainerWait's channels hold
  cleanups     \* Cleanup calls the caller made on its own

termVars ==
  <<tpc, startErr, isTerminal, termMode, oldState, respOpen, ctxDone, resizeDone,
    resizePc, resizes, copyPc, copyErr, errCh, waitPc, cleanups>>

auxVars == <<lifeVars, createVars, termVars>>

vars == <<mergeVars, buildVars, extVars, resVars, auxVars>>

----------------------------------------------------------------------------
(* Pointers, strings, interface{} values *)

NilPtr == <<>>
Ptr(v) == <<v>>
Deref(p) == p[1]

\* interface{} holding nil, a float64, a string or a []interface{}
INil == [kind |-> "nil", num |-> 0, str |-> <<>>, list |-> <<>>]
INum(n) == [kind |-> "num", num |-> n, str |-> <<>>, list |-> <<>>]
IStr(s) == [kind |-> "str", num |-> 0, str |-> s, list |-> <<>>]
IList(l) == [kind |-> "list", num |-> 0, str |-> <<>>, list |-> l]

\* element of a []interface{} of ports
PNum(n) == [kind |-> "num", num |-> n, str |-> <<>>]
PStr(s) == [kind |-> "str", num |-> 0, str |-> s]

\* a mount entry of DevContainerCommon.Mounts: a string or a map[string]interface{}
\* whose values are strings or bools
MStr(s) == [kind |-> "str", str |-> s, m |-> <<>>]
MMap(m) == [kind |-> "map", str |-> <<>>, m |-> m]
VStr(s) == [kind |-> "str", s |-> s, b |-> FALSE]
VBool(b) == [kind |-> "bool", s |-> <<>>, b |-> b]

EmptyMap == [k \in {} |-> <<>>]

\* m2's entries written over m1's (for k, v := range m2 { m1[k] = v })
Overlay(m1, m2) ==
  [k \in (DOMAIN m1) \cup (DOMAIN m2) |-> IF k \in DOMAIN m2 THEN m2[k] ELSE m1[k]]

----------------------------------------------------------------------------
(* Descriptors *)

\* NonComposeBase{RunArgs, WorkspaceFolder, WorkspaceMount, AppPort}
EmptyNcb ==
  [RunArgs |-> <<>>, WorkspaceFolder |-> NilPtr, WorkspaceMount |-> NilPtr,
   AppPort |-> INil]

\* A DevContainer by value: ContainerEnv and NonComposeBase are held inline
\* (NilPtr or Ptr(object)).  The zero value of the Go struct.
EmptyLit ==
  [Image |-> <<>>, ImageContainer |-> NilPtr, DockerfileContainer |-> <<>>,
   ComposeContainer |-> NilPtr, Name |-> NilPtr,
   WorkspaceFolder |-> <<>>, WorkspaceMount |-> <<>>,
   ContainerUser |-> NilPtr, Init |-> NilPtr, Privileged |-> NilPtr,
   ContainerEnv |-> NilPtr, ForwardPorts |-> INil, AppPort |-> INil,
   CapAdd |-> <<>>, SecurityOpt |-> <<>>, Mounts |-> <<>>,
   InitializeCommand |-> INil, OnCreateCommand |-> INil,
   UpdateContentCommand |-> INil, PostCreateCommand |-> INil,
   PostStartCommand |-> INil, PostAttachCommand |-> INil,
   Features |-> NilPtr,
   NonComposeBase |-> NilPtr]

\* A devcontainer.json document: the keys the model reads.  A key that is
\* absent holds the zero value; runArgs and containerEnv record their presence.
EmptyDoc ==
  [image |-> <<>>, dockerFile |-> <<>>, dockerComposeFile |-> NilPtr,
   service |-> <<>>, name |-> NilPtr,
   workspaceFolder |-> <<>>, workspaceMount |-> <<>>,
   containerUser |-> NilPtr, init |-> NilPtr, privileged |-> NilPtr,
   containerEnv |-> NilPtr, forwardPorts |-> INil, appPort |-> INil,
   capAdd |-> <<>>, securityOpt |-> <<>>, mounts |-> <<>>,
   initializeCommand |-> INil, onCreateCommand |-> INil,
   updateContentCommand |-> INil, postCreateCommand |-> INil,
   postStartCommand |-> INil, postAttachCommand |-> INil,
   features |-> NilPtr,
   runArgs |-> NilPtr]

\* The zero value of DockerRunConfig.
EmptyConfig ==
  [Image |-> <<>>, WorkspaceMount |-> <<>>, WorkspaceFolder |-> <<>>,
   Environment |-> EmptyMap, Ports |-> <<>>, Mounts |-> <<>>,
   CapAdd |-> <<>>, Capabilities |-> <<>>, SecurityOpt |-> <<>>,
   SecurityOpts |-> <<>>, Init |-> FALSE, Privileged |-> FALSE,
   User |-> <<>>, Name |-> <<>>, Command |-> <<>>, RunArgs |-> <<>>]

\* DevContainerCommonFeatures.UnmarshalJSON: the known keys fill their
\* fields, the other keys of the object become AdditionalProperties, which
\* stays nil when there are none.  obj maps each key of the object to its value.
UnmarshalFeatures(obj) ==
  [Fish |-> IF "fish" \in DOMAIN obj THEN obj["fish"] ELSE <<>>,
   Gradle |-> IF "gradle" \in DOMAIN obj THEN obj["gradle"] ELSE <<>>,
   Maven |-> IF "maven" \in DOMAIN obj THEN obj["maven"] ELSE <<>>,
   AdditionalProperties |->
     IF DOMAIN obj \ {"fish", "gradle", "maven"} = {} THEN NilPtr
     ELSE Ptr([k \in DOMAIN obj \ {"fish", "gradle", "maven"} |-> obj[k]])]

\* LoadDevContainer: json.Unmarshal into the struct, then the raw pass that
\* fills NonComposeBase.RunArgs, ImageContainer and ComposeContainer.
LoadDevContainer(doc) ==
  [Image |-> doc.image,
   ImageContainer |-> IF doc.image # <<>> THEN Ptr(doc.image) ELSE NilPtr,
   DockerfileContainer |-> doc.dockerFile,
   ComposeContainer |->
     IF doc.dockerComposeFile # NilPtr THEN Ptr(doc.service) ELSE NilPtr,
   Name |-> doc.name,
   WorkspaceFolder |-> doc.workspaceFolder,
   WorkspaceMount |-> doc.workspaceMount,
   ContainerUser |-> doc.containerUser,
   Init |-> doc.init,
   Privileged |-> doc.privileged,
   ContainerEnv |-> doc.containerEnv,
   ForwardPorts |-> doc.forwardPorts,
   AppPort |-> doc.appPort,
   CapAdd |-> doc.capAdd,
   SecurityOpt |-> doc.securityOpt,
   Mounts |-> doc.mounts,
   InitializeCommand |-> doc.initializeCommand,
   OnCreateCommand |-> doc.onCreateCommand,
   UpdateContentCommand |-> doc.updateContentCommand,
   PostCreateCommand |-> doc.postCreateCommand,
   PostStartCommand |-> doc.postStartCommand,
   PostAttachCommand |-> doc.postAttachCommand,
   Features |->
     IF doc.features # NilPtr THEN Ptr(UnmarshalFeatures(Deref(doc.features)))
     ELSE NilPtr,
   NonComposeBase |->
     IF doc.runArgs # NilPtr
       THEN Ptr([EmptyNcb EXCEPT !.RunArgs = Deref(doc.runArgs)])
       ELSE NilPtr]

\* The descriptor as Go holds it: the map and the NonComposeBase struct are
\* heap objects, the descriptor holds their addresses (0 is nil).
Alloc(lit, eh, nh) ==
  LET ea == IF lit.ContainerEnv = NilPtr THEN 0 ELSE Len(eh) + 1
      na == IF lit.NonComposeBase = NilPtr THEN 0 ELSE Len(nh) + 1
  IN [d  |-> [lit EXCEPT !.ContainerEnv = ea, !.NonComposeBase = na],
      eh |-> IF ea = 0 THEN eh ELSE Append(eh, Deref(lit.ContainerEnv)),
      nh |-> IF na = 0 THEN nh ELSE Append(nh, Deref(lit.NonComposeBase))]

\* The value a descriptor has, reading its map and struct through the heaps.
Deep(d, eh, nh) ==
  [d EXCEPT
     !.ContainerEnv = IF d.ContainerEnv = 0 THEN NilPtr ELSE Ptr(eh[d.ContainerEnv]),
     !.NonComposeBase =
        IF d.NonComposeBase = 0 THEN NilPtr ELSE Ptr(nh[d.NonComposeBase])]

----------------------------------------------------------------------------
(* MergeDevContainers.  Each step takes the merge in progress,             *)
(* st = [r: the result struct, eh, nh: the heaps], and override o.         *)

\* "Merge basic fields"
MergeBasicFields(st, o) ==
  [st EXCEPT
     !.r.Image = IF o.Image # <<>> THEN o.Image ELSE @,
     !.r.ImageContainer = IF o.ImageContainer # NilPtr THEN o.ImageContainer ELSE @,
     !.r.Name = IF o.Name # NilPtr THEN o.Name ELSE @]

\* "Merge environment variables": writes through result.ContainerEnv, which
\* after result := *base is base's map unless base had none.
MergeContainerEnv(st, o) ==
  IF o.ContainerEnv # 0 /\ DOMAIN st.eh[o.ContainerEnv] # {}
    THEN LET fresh == st.r.ContainerEnv = 0
             a  == IF fresh THEN Len(st.eh) + 1 ELSE st.r.ContainerEnv
             eh1 == IF fresh THEN Append(st.eh, EmptyMap) ELSE st.eh
         IN [st EXCEPT !.r.ContainerEnv = a,
                       !.eh = [eh1 EXCEPT ![a] = Overlay(eh1[a], eh1[o.ContainerEnv])]]
    ELSE st

\* "Override arrays (not merge)"
MergeArrays(st, o) ==
  [st EXCEPT
     !.r.ForwardPorts = IF o.ForwardPorts.kind # "nil" THEN o.ForwardPorts ELSE @,
     !.r.CapAdd = IF Len(o.CapAdd) > 0 THEN o.CapAdd ELSE @,
     !.r.SecurityOpt = IF Len(o.SecurityOpt) > 0 THEN o.SecurityOpt ELSE @]

\* a map[string]interface{} read by range: a nil map has no entries
Entries(mp) == IF mp = NilPtr THEN EmptyMap ELSE Deref(mp)

\* a merge of features in which base's additional properties win
mergeFeaturesBaseWins(bf, of) ==
  IF bf = NilPtr THEN of
  ELSE IF of = NilPtr THEN bf
  ELSE Ptr([Fish |-> IF Deref(of).Fish # <<>> THEN Deref(of).Fish ELSE Deref(bf).Fish,
            Gradle |-> IF Deref(of).Gradle # <<>> THEN Deref(of).Gradle
                       ELSE Deref(bf).Gradle,
            Maven |-> IF Deref(of).Maven # <<>> THEN Deref(of).Maven ELSE Deref(bf).Maven,
            AdditionalProperties |->
              Ptr(Overlay(Entries(Deref(of).AdditionalProperties),
                          Entries(Deref(bf).AdditionalProperties)))])

\* mergeFeatures(base, override): a new struct with a new map
mergeFeatures(bf, of) ==
  IF bf = NilPtr THEN of
  ELSE IF of = NilPtr THEN bf
  ELSE Ptr([Fish |-> IF Deref(of).Fish # <<>> THEN Deref(of).Fish ELSE Deref(bf).Fish,
            Gradle |-> IF Deref(of).Gradle # <<>> THEN Deref(of).Gradle
                       ELSE Deref(bf).Gradle,
            Maven |-> IF Deref(of).Maven # <<>> THEN Deref(of).Maven ELSE Deref(bf).Maven,
            AdditionalProperties |->
              Ptr(Overlay(Entries(Deref(bf).AdditionalProperties),
                          Entries(Deref(of).AdditionalProperties)))])

\* "Merge features": b is *base
MergeFeatures(st, b, o) ==
  IF b.Features # NilPtr \/ o.Features # NilPtr
    THEN [st EXCEPT !.r.Features = mergeFeatures(b.Features, o.Features)]
    ELSE st

\* "Merge mounts"
MergeMounts(st, o) ==
  [st EXCEPT !.r.Mounts = IF Len(o.Mounts) > 0 THEN o.Mounts ELSE @]

\* "Merge NonComposeBase" with the run-args treated like the other lists:
\* replaced only by a non-empty list
MergeNonComposeBaseNonEmpty(st, o) ==
  IF o.NonComposeBase = 0 THEN st
  ELSE IF st.r.NonComposeBase = 0
    THEN [st EXCEPT !.r.NonComposeBase = o.NonComposeBase]
    ELSE LET on == st.nh[o.NonComposeBase]
             a  == st.r.NonComposeBase
         IN [st EXCEPT
               !.nh[a].WorkspaceFolder =
                  IF on.WorkspaceFolder # NilPtr THEN on.WorkspaceFolder ELSE @,
               !.nh[a].WorkspaceMount =
                  IF on.WorkspaceMount # NilPtr THEN on.WorkspaceMount ELSE @,
               !.nh[a].AppPort = IF on.AppPort.kind # "nil" THEN on.AppPort ELSE @,
               !.nh[a].RunArgs = IF Len(on.RunArgs) > 0 THEN on.RunArgs ELSE @]

\* "Merge NonComposeBase": result.NonComposeBase is base's struct, so the
\* field assignments write into it.
MergeNonComposeBase(st, o) ==
  IF o.NonComposeBase = 0 THEN st
  ELSE IF st.r.NonComposeBase = 0
    THEN [st EXCEPT !.r.NonComposeBase = o.NonComposeBase]
    ELSE LET on == st.nh[o.NonComposeBase]
             a  == st.r.NonComposeBase
         IN [st EXCEPT
               !.nh[a].WorkspaceFolder =
                  IF on.WorkspaceFolder # NilPtr THEN on.WorkspaceFolder ELSE @,
               !.nh[a].WorkspaceMount =
                  IF on.WorkspaceMount # NilPtr THEN on.WorkspaceMount ELSE @,
               !.nh[a].AppPort = IF on.AppPort.kind # "nil" THEN on.AppPort ELSE @,
               !.nh[a].RunArgs = on.RunArgs]

Hooks ==
  {"InitializeCommand", "OnCreateCommand", "UpdateContentCommand",
   "PostCreateCommand", "PostStartCommand", "PostAttachCommand"}

\* a merge of the hooks as one block: override's six hooks replace base's
\* as soon as override defines one of them
MergeLifecycleCommandsAsBlock(st, o) ==
  IF \E h \in Hooks : o[h].kind # "nil"
    THEN [st EXCEPT
            !.r.InitializeCommand = o.InitializeCommand,
            !.r.OnCreateCommand = o.OnCreateCommand,
            !.r.UpdateContentCommand = o.UpdateContentCommand,
            !.r.PostCreateCommand = o.PostCreateCommand,
            !.r.PostStartCommand = o.PostStartCommand,
            !.r.PostAttachCommand = o.PostAttachCommand]
    ELSE st

\* "Merge lifecycle commands"
MergeLifecycleCommands(st, o) ==
  [st EXCEPT
     !.r.InitializeCommand =
        IF o.InitializeCommand.kind # "nil" THEN o.InitializeCommand ELSE @,
     !.r.OnCreateCommand =
        IF o.OnCreateCommand.kind # "nil" THEN o.OnCreateCommand ELSE @,
     !.r.UpdateContentCommand =
        IF o.UpdateContentCommand.kind # "nil" THEN o.UpdateContentCommand ELSE @,
     !.r.PostCreateCommand =
        IF o.PostCreateCommand.kind # "nil" THEN o.PostCreateCommand ELSE @,
     !.r.PostStartCommand =
        IF o.PostStartCommand.kind # "nil" THEN o.PostStartCommand ELSE @,
     !.r.PostAttachCommand =
        IF o.PostAttachCommand.kind # "nil" THEN o.PostAttachCommand ELSE @]

\* MergeDevContainers past its nil tests: result := *base, then the steps.
MergeBoth(b, o, eh, nh) ==
  LET s0 == [r |-> Deref(b), eh |-> eh, nh |-> nh]
      s1 == MergeBasicFields(s0, Deref(o))
      s2 == MergeContainerEnv(s1, Deref(o))
      s3 == MergeArrays(s2, Deref(o))
      sf == MergeFeatures(s3, Deref(b), Deref(o))
      s4 == MergeMounts(sf, Deref(o))
      s5 == MergeNonComposeBase(s4, Deref(o))
      s6 == MergeLifecycleCommands(s5, Deref(o))
  IN [r |-> Ptr(s6.r), eh |-> s6.eh, nh |-> s6.nh]

\* a merge that answers a nil override with nil
MergeDevContainersNilOverride(b, o, eh, nh) ==
  IF o = NilPtr THEN [r |-> NilPtr, eh |-> eh, nh |-> nh]
  ELSE IF b = NilPtr THEN [r |-> o, eh |-> eh, nh |-> nh]
  ELSE MergeBoth(b, o, eh, nh)

\* MergeDevContainers(base, override): b and o are pointers (NilPtr/Ptr).
MergeDevContainers(b, o, eh, nh) ==
  IF b = NilPtr THEN [r |-> o, eh |-> eh, nh |-> nh]
  ELSE IF o = NilPtr THEN [r |-> b, eh |-> eh, nh |-> nh]
  ELSE MergeBoth(b, o, eh, nh)

----------------------------------------------------------------------------
(* The merge scenario: a caller obtains two descriptors, from documents    *)
(* (LoadDevContainer) or built in Go, and calls MergeDevContainers.        *)

StrA == <<"a">>
StrB == <<"b">>
StrOpts == {<<>>, StrA, StrB}
PtrStrOpts == {NilPtr, Ptr(<<>>), Ptr(StrA), Ptr(StrB)}
PtrBoolOpts == {NilPtr, Ptr(TRUE), Ptr(FALSE)}
ListOpts == {<<>>, <<StrA>>, <<StrB, StrA>>}
PortListOpts ==
  {INil, IList(<<>>), IList(<<PNum(3000)>>),
   IList(<<PNum(8080), PStr(<<"5000", ":", "5000">>)>>)}
AppPortOpts == {INil, INum(3000), IList(<<PNum(5000)>>), IList(<<>>)}
MountListOpts ==
  {<<>>, <<MStr(<<"type=", "volume", ",", "target=", "/v">>)>>,
   <<MMap([type |-> VStr(<<"bind">>), target |-> VStr(<<"/d">>)]),
     MStr(<<"type=", "volume", ",", "target=", "/v">>)>>}
EnvKeys == {"K1", "K2"}
EnvOpts ==
  {NilPtr} \cup
  UNION {{Ptr(m) : m \in [ks -> {StrA, StrB}]} : ks \in SUBSET EnvKeys}
RunArgsOpts == {NilPtr, Ptr(<<>>), Ptr(<<StrA>>), Ptr(<<StrB, StrA>>)}
HookOpts == {IStr(StrA), IStr(<<>>), IList(<<StrB, StrA>>)}
FeatureKeys == {"fish", "F1", "F2", "F3"}
FeatureObjects == UNION {[ks -> {StrA, StrB}] : ks \in SUBSET FeatureKeys}

\* Documents, varied one family of keys at a time.
MergeDocs(g) ==
  CASE g = "scalarA" ->
         {[EmptyDoc EXCEPT !.image = i, !.name = n, !.containerUser = u] :
            i \in StrOpts, n \in PtrStrOpts, u \in PtrStrOpts \ {Ptr(<<>>)}}
    [] g = "scalarB" ->
         {[EmptyDoc EXCEPT !.workspaceFolder = f, !.workspaceMount = m,
                           !.init = i, !.privileged = p] :
            f \in StrOpts, m \in StrOpts, i \in PtrBoolOpts, p \in PtrBoolOpts}
    [] g = "lists" ->
         {[EmptyDoc EXCEPT !.capAdd = c, !.securityOpt = so, !.mounts = m] :
            c \in ListOpts, so \in ListOpts, m \in MountListOpts}
    [] g = "ports" ->
         {[EmptyDoc EXCEPT !.forwardPorts = f, !.appPort = a, !.runArgs = r] :
            f \in PortListOpts, a \in AppPortOpts, r \in RunArgsOpts \ {Ptr(<<StrB, StrA>>)}}
    [] g = "env" -> {[EmptyDoc EXCEPT !.containerEnv = e] : e \in EnvOpts}
    [] g = "ncb" -> {[EmptyDoc EXCEPT !.runArgs = r] : r \in RunArgsOpts}
    [] g = "hooks" ->
         {[EmptyDoc EXCEPT
             !.initializeCommand = IF "InitializeCommand" \in hs THEN v ELSE INil,
             !.onCreateCommand = IF "OnCreateCommand" \in hs THEN v ELSE INil,
             !.updateContentCommand = IF "UpdateContentCommand" \in hs THEN v ELSE INil,
             !.postCreateCommand = IF "PostCreateCommand" \in hs THEN v ELSE INil,
             !.postStartCommand = IF "PostStartCommand" \in hs THEN v ELSE INil,
             !.postAttachCommand = IF "PostAttachCommand" \in hs THEN v ELSE INil] :
            hs \in SUBSET Hooks, v \in HookOpts}
    [] g = "features" ->
         {[EmptyDoc EXCEPT !.features = Ptr(obj)] : obj \in FeatureObjects}
         \cup {EmptyDoc}

\* Descriptors built in Go (as the package's tests build them): only these
\* can carry the NonComposeBase fields other than RunArgs.
MergeLits(g) ==
  IF g = "ncb"
    THEN {[EmptyLit EXCEPT !.NonComposeBase =
             Ptr([RunArgs |-> r, WorkspaceFolder |-> f, WorkspaceMount |-> m,
                  AppPort |-> a])] :
            r \in {<<>>, <<StrA>>}, f \in {NilPtr, Ptr(StrA), Ptr(StrB)},
            m \in {NilPtr, Ptr(StrA)}, a \in {INil, INum(3000), IList(<<>>)}}
  ELSE IF g = "features"
    THEN {[EmptyLit EXCEPT !.Features =
             Ptr([Fish |-> <<>>, Gradle |-> g1, Maven |-> <<>>,
                  AdditionalProperties |-> Ptr(EmptyMap)])] : g1 \in {<<>>, StrA}}
    ELSE {}

MergeGroups ==
  {"scalarA", "scalarB", "lists", "ports", "env", "ncb", "features", "hooks"}

NilInput == [origin |-> "nil", doc |-> EmptyDoc, lit |-> EmptyLit]

MergeInputs(g) ==
  {[origin |-> "doc", doc |-> d, lit |-> LoadDevContainer(d)] : d \in MergeDocs(g)}
  \cup {[origin |-> "api", doc |-> EmptyDoc, lit |-> l] : l \in MergeLits(g)}
  \cup {NilInput}

\* the extends scenario's and the localEnv scenario's variables while
\* another scenario runs
LifeIdle ==
  /\ lpc = "idle" /\ lDc = EmptyMap /\ lPhase = <<>> /\ lHook = ""
  /\ lParsed = [cmd |-> NilPtr, err |-> ""]
  /\ lOut = [script |-> <<>>, err |-> ""]

\* the zero values of container.Config and container.HostConfig
NoRequest ==
  [Image |-> <<>>, Cmd |-> <<>>, Env |-> <<>>, WorkingDir |-> <<>>, User |-> <<>>,
   Tty |-> FALSE, ExposedPorts |-> <<>>, Privileged |-> FALSE, Init |-> NilPtr,
   Mounts |-> <<>>, CapAdd |-> <<>>, SecurityOpt |-> <<>>, PortBindings |-> <<>>,
   NetworkMode |-> <<>>, Name |-> <<>>]

CreateIdle == request = NoRequest /\ created = [id |-> <<>>, err |-> ""]

Copiers == {"stdin", "stdout"}

TermIdle ==
  /\ tpc = "idle" /\ startErr = "" /\ isTerminal = FALSE /\ termMode = "cooked"
  /\ oldState = NilPtr /\ respOpen = FALSE /\ ctxDone = FALSE /\ resizeDone = FALSE
  /\ resizePc = "none" /\ resizes = 0 /\ copyPc = [g \in Copiers |-> "none"]
  /\ copyErr = [g \in Copiers |-> "nil"] /\ errCh = <<>> /\ waitPc = "none"
  /\ cleanups = 0

AuxIdle == LifeIdle /\ CreateIdle /\ TermIdle

ResolveIdle ==
  /\ rpc = "idle" /\ rSegs = <<>> /\ rEnv = EmptyMap
  /\ rOut = [out |-> <<>>, missing |-> <<>>]
  /\ AuxIdle

ExtendsIdle ==
  /\ epc = "idle" /\ fs = EmptyMap /\ stack = <<>>
  /\ ret = [dc |-> NilPtr, err |-> ""]
  /\ ResolveIdle

\* the build scenario's variables while the merge scenario runs
BuildIdle ==
  /\ bpc = "idle" /\ run = 0 /\ inDc = EmptyLit /\ wsRoot = <<>>
  /\ hostEnv = EmptyMap /\ managerMounts = <<>> /\ devContainer = EmptyLit
  /\ buildErr = "" /\ missing = <<>> /\ config = EmptyConfig /\ valid = ""
  /\ args = <<>> /\ prevConfig = EmptyConfig /\ prevArgs = <<>>

MergeInit ==
  /\ BuildIdle
  /\ ExtendsIdle
  /\ mpc = "start"
  /\ \E g \in MergeGroups :
       /\ inBase \in MergeInputs(g)
       /\ inOverride \in MergeInputs(g)
  /\ envHeap = <<>>
  /\ ncbHeap = <<>>
  /\ base = NilPtr
  /\ override = NilPtr
  /\ result = NilPtr

\* The caller obtains base (LoadDevContainer or a Go literal; nil stays nil).
ProvideBase ==
  /\ mpc = "start"
  /\ LET al == Alloc(inBase.lit, envHeap, ncbHeap)
     IN IF inBase.origin = "nil"
          THEN base' = NilPtr /\ UNCHANGED <<envHeap, ncbHeap>>
          ELSE base' = Ptr(al.d) /\ envHeap' = al.eh /\ ncbHeap' = al.nh
  /\ mpc' = "haveBase"
  /\ UNCHANGED <<inBase, inOverride, override, result, buildVars, extVars, resVars, auxVars>>

\* The caller obtains override.
ProvideOverride ==
  /\ mpc = "haveBase"
  /\ LET al == Alloc(inOverride.lit, envHeap, ncbHeap)
     IN IF inOverride.origin = "nil"
          THEN override' = NilPtr /\ UNCHANGED <<envHeap, ncbHeap>>
          ELSE override' = Ptr(al.d) /\ envHeap' = al.eh /\ ncbHeap' = al.nh
  /\ mpc' = "ready"
  /\ UNCHANGED <<inBase, inOverride, base, result, buildVars, extVars, resVars, auxVars>>

\* result = MergeDevContainers(base, override)
Merge ==
  /\ mpc = "ready"
  /\ LET m == MergeDevContainers(base, override, envHeap, ncbHeap)
     IN /\ result' = m.r
        /\ envHeap' = m.eh
        /\ ncbHeap' = m.nh
  /\ mpc' = "done"
  /\ UNCHANGED <<inBase, inOverride, base, override, buildVars, extVars, resVars, auxVars>>

MergeNext == ProvideBase \/ ProvideOverride \/ Merge

SpecMerge == MergeInit /\ [][MergeNext]_vars

\* Both arguments of the finished call were non-nil.
MergedBoth == mpc = "done" /\ base # NilPtr /\ override # NilPtr

BaseNow == Deep(Deref(base), envHeap, ncbHeap)
OverrideNow == Deep(Deref(override), envHeap, ncbHeap)
ResultNow == Deep(Deref(result), envHeap, ncbHeap)

RunArgsOf(lit) ==
  IF lit.NonComposeBase = NilPtr THEN <<>> ELSE Deref(lit.NonComposeBase).RunArgs

\* C2: MergeDevContainers with two non-nil arguments leaves both inputs with
\* the values they had before the call (environment map, non-compose block,
\* every other field).
C2_InputsUnchanged ==
  MergedBoth => /\ BaseNow = inBase.lit
                /\ OverrideNow = inOverride.lit

\* A string scalar is set when it is non-empty; a pointer scalar when it is
\* non-nil and, for a string, points to a non-empty string.
StrSet(v) == v # <<>>
PtrStrSet(p) == p # NilPtr /\ Deref(p) # <<>>
PtrSet(p) == p # NilPtr

OverrideWins(isSet, field) ==
  ResultNow[field] =
    IF isSet THEN inOverride.lit[field] ELSE inBase.lit[field]

\* C3: for every scalar field (image, name, workspace folder, workspace
\* mount, container user, init, privileged) the merge returns override's
\* value when override sets it, and base's value when override leaves it
\* absent or empty.
C3_ScalarOverride ==
  MergedBoth =>
    /\ OverrideWins(StrSet(inOverride.lit.Image), "Image")
    /\ OverrideWins(PtrStrSet(inOverride.lit.Name), "Name")
    /\ OverrideWins(StrSet(inOverride.lit.WorkspaceFolder), "WorkspaceFolder")
    /\ OverrideWins(StrSet(inOverride.lit.WorkspaceMount), "WorkspaceMount")
    /\ OverrideWins(PtrStrSet(inOverride.lit.ContainerUser), "ContainerUser")
    /\ OverrideWins(PtrSet(inOverride.lit.Init), "Init")
    /\ OverrideWins(PtrSet(inOverride.lit.Privileged), "Privileged")

\* An interface{} port field supplies a non-empty list when it holds a
\* list with at least one element (or a single port).
PortsSupplied(v) == v.kind # "nil" /\ (v.kind = "list" => Len(v.list) > 0)

\* C4: for every list field (capability-add, security-opt, forwarded ports,
\* app ports, mounts) the merge returns exactly override's list when
\* override supplies a non-empty one, and base's list when override's is
\* absent or empty.
C4_ListOverride ==
  MergedBoth =>
    /\ OverrideWins(Len(inOverride.lit.CapAdd) > 0, "CapAdd")
    /\ OverrideWins(Len(inOverride.lit.SecurityOpt) > 0, "SecurityOpt")
    /\ OverrideWins(PortsSupplied(inOverride.lit.ForwardPorts), "ForwardPorts")
    /\ OverrideWins(PortsSupplied(inOverride.lit.AppPort), "AppPort")
    /\ OverrideWins(Len(inOverride.lit.Mounts) > 0, "Mounts")

\* C5: when the override document declares runArgs (an empty list
\* included) the merged run-args are override's; when it does not declare
\* the key they are base's.
C5_RunArgsByPresence ==
  (MergedBoth /\ inOverride.origin = "doc") =>
     RunArgsOf(ResultNow) =
       IF inOverride.doc.runArgs # NilPtr
         THEN Deref(inOverride.doc.runArgs)
         ELSE RunArgsOf(inBase.lit)

\* C5's case: base has run-args, the override document declares "runArgs": []
\* and the merge has cleared them.
C5_Witness ==
  /\ MergedBoth
  /\ inOverride.origin = "doc"
  /\ inOverride.doc.runArgs = Ptr(<<>>)
  /\ RunArgsOf(inBase.lit) # <<>>
  /\ RunArgsOf(ResultNow) = <<>>

\* C16: MergeDevContainers(nil, X) is X and MergeDevContainers(X, nil) is
\* X, field for field: the descriptor returned is the non-nil argument,
\* holding what that argument held when it was passed.
C16_NilIsIdentity ==
  mpc = "done" =>
    /\ base = NilPtr =>
         /\ result = override
         /\ override # NilPtr => ResultNow = inOverride.lit
    /\ override = NilPtr =>
         /\ result = base
         /\ base # NilPtr => ResultNow = inBase.lit

\* C16's case: a descriptor with an environment merged under a nil override
C16_Witness ==
  /\ mpc = "done"
  /\ override = NilPtr
  /\ base # NilPtr
  /\ ResultNow.ContainerEnv # NilPtr
  /\ DOMAIN Deref(ResultNow.ContainerEnv) = EnvKeys

EnvOf(lit) == Entries(lit.ContainerEnv)
PropsOf(lit) ==
  IF lit.Features = NilPtr THEN EmptyMap
  ELSE Entries(Deref(lit.Features).AdditionalProperties)

\* r holds exactly the keys of b and o, with o's value where o has the key
\* and b's value elsewhere
KeyUnion(r, b, o) ==
  /\ DOMAIN r = DOMAIN b \cup DOMAIN o
  /\ \A k \in DOMAIN r : r[k] = IF k \in DOMAIN o THEN o[k] ELSE b[k]

\* C17: the environment map and the additional properties of the features
\* merge as a key-wise union: a key both sides define takes override's
\* value, a key only base defines keeps base's value, a key only override
\* defines is added, and no other key appears.
C17_KeyWiseUnion ==
  MergedBoth =>
    /\ KeyUnion(EnvOf(ResultNow), EnvOf(inBase.lit), EnvOf(inOverride.lit))
    /\ KeyUnion(PropsOf(ResultNow), PropsOf(inBase.lit), PropsOf(inOverride.lit))

\* C17's case: features merged where F1 is base's alone, F2 is defined by
\* both with different values, and F3 is override's alone
C17_Witness ==
  /\ MergedBoth
  /\ DOMAIN PropsOf(inBase.lit) = {"F1", "F2"}
  /\ DOMAIN PropsOf(inOverride.lit) = {"F2", "F3"}
  /\ PropsOf(inBase.lit)["F2"] # PropsOf(inOverride.lit)["F2"]
  /\ DOMAIN PropsOf(ResultNow) = {"F1", "F2", "F3"}

\* C18: the six lifecycle hooks merge independently of each other: the
\* merged descriptor has override's hook when override defines that hook,
\* and base's hook otherwise.
C18_HooksIndependent ==
  MergedBoth =>
    \A h \in Hooks :
      ResultNow[h] = IF inOverride.lit[h].kind # "nil"
                       THEN inOverride.lit[h] ELSE inBase.lit[h]

\* C18's case: override replaces base's onCreate, defines postStart, and
\* leaves postCreate, which base defines, undefined
C18_Witness ==
  /\ MergedBoth
  /\ inBase.lit.OnCreateCommand.kind = "str"
  /\ inOverride.lit.OnCreateCommand.kind = "list"
  /\ ResultNow.OnCreateCommand = inOverride.lit.OnCreateCommand
  /\ inBase.lit.PostCreateCommand.kind = "str"
  /\ inOverride.lit.PostCreateCommand.kind = "nil"
  /\ ResultNow.PostCreateCommand = inBase.lit.PostCreateCommand
  /\ inBase.lit.PostStartCommand.kind = "nil"
  /\ ResultNow.PostStartCommand.kind = "list"

----------------------------------------------------------------------------
(* Strings (package strings, path/filepath) on sequences of lexemes *)

\* s[i..] starts with pat
HasPrefixAt(s, i, pat) ==
  /\ i + Len(pat) - 1 <= Len(s)
  /\ \A k \in 1..Len(pat) : s[i + k - 1] = pat[k]

\* strings.Contains(s, pat)
Contains(s, pat) == \E i \in 1..(Len(s) + 1) : HasPrefixAt(s, i, pat)

\* strings.Count(s, tok) for a one-lexeme tok
Count(s, tok) == Cardinality({i \in 1..Len(s) : s[i] = tok})

\* strings.ReplaceAll(s, pat, rep): leftmost, non-overlapping matches
RECURSIVE ReplaceFrom(_, _, _, _)
ReplaceFrom(s, i, pat, rep) ==
  IF i > Len(s) THEN <<>>
  ELSE IF HasPrefixAt(s, i, pat)
    THEN rep \o ReplaceFrom(s, i + Len(pat), pat, rep)
    ELSE <<s[i]>> \o ReplaceFrom(s, i + 1, pat, rep)

ReplaceAll(s, pat, rep) == IF pat = <<>> THEN s ELSE ReplaceFrom(s, 1, pat, rep)

\* strings.Join(parts, sep)
RECURSIVE Join(_, _)
Join(parts, sep) ==
  IF parts = <<>> THEN <<>>
  ELSE IF Len(parts) = 1 THEN parts[1]
  ELSE parts[1] \o sep \o Join(Tail(parts), sep)

\* trailing separators removed, the root "/" kept
RECURSIVE StripTrailingSlashes(_)
StripTrailingSlashes(p) ==
  IF Len(p) > 1 /\ p[Len(p)] = "/" THEN StripTrailingSlashes(SubSeq(p, 1, Len(p) - 1))
  ELSE p

\* filepath.Base: "." for the empty path, the last element otherwise
FilepathBase(path) ==
  IF path = <<>> THEN <<".">>
  ELSE LET p == StripTrailingSlashes(path)
           slashes == {i \in 1..Len(p) : p[i] = "/"}
           last == IF slashes = {} THEN 0
                   ELSE CHOOSE i \in slashes : \A j \in slashes : j <= i
       IN IF p = <<"/">> THEN p ELSE SubSeq(p, last + 1, Len(p))

\* filepath.Abs of an absolute path is filepath.Clean of it; the paths of the
\* model hold no "." or ".." element and no doubled separator, so Clean only
\* removes trailing separators.
FilepathAbs(path) == StripTrailingSlashes(path)

\* the sequences that take one element from each set of a sequence of sets
RECURSIVE SeqChoices(_)
SeqChoices(ss) ==
  IF ss = <<>> THEN {<<>>}
  ELSE {<<h>> \o t : h \in Head(ss), t \in SeqChoices(Tail(ss))}

\* the orders in which a range over a Go map may visit the keys ks
Orders(ks) ==
  {o \in [1..Cardinality(ks) -> ks] : \A i, j \in DOMAIN o : i # j => o[i] # o[j]}

----------------------------------------------------------------------------
(* Variable expansion *)

\* GetStandardVariables(workspaceFolder): names are lexeme sequences, so that
\* "localWorkspaceFolder" is a prefix of "localWorkspaceFolderBasename".
VarNames ==
  {<<"localWorkspaceFolder">>, <<"localWorkspaceFolder", "Basename">>,
   <<"containerWorkspaceFolder">>, <<"containerWorkspaceFolder", "Basename">>}

GetStandardVariables(workspaceFolder) ==
  LET basename == FilepathBase(workspaceFolder)
  IN [k \in VarNames |->
       CASE k = <<"localWorkspaceFolder">> -> workspaceFolder
         [] k = <<"localWorkspaceFolder", "Basename">> -> basename
         [] k = <<"containerWorkspaceFolder">> -> <<"/", "workspaces", "/">> \o basename
         [] k = <<"containerWorkspaceFolder", "Basename">> -> basename]

\* os.LookupEnv as resolveLocalEnvVars reads it: the value, "" when the name
\* is unset or set to the empty string
LookupEnv(env, name) == IF name \in DOMAIN env THEN env[name] ELSE <<>>

\* reLocalEnv = \$\{localEnv:([^}:]+)(?::([^}]*))?\} matched at position i:
\* [ok, name, def, last] with last the index of the closing brace
MatchLocalEnv(s, i) ==
  LET nomatch == [ok |-> FALSE, name |-> <<>>, def |-> <<>>, last |-> 0]
      j == i + 4
      \* first index at or after j that ends the name
      stops == {k \in j..Len(s) : s[k] \in {"}", ":"}}
  IN IF ~HasPrefixAt(s, i, <<"$", "{", "localEnv", ":">>) \/ stops = {} THEN nomatch
     ELSE LET e == CHOOSE k \in stops : \A k2 \in stops : k <= k2
          IN IF e = j THEN nomatch
             ELSE IF s[e] = "}"
               THEN [ok |-> TRUE, name |-> SubSeq(s, j, e - 1), def |-> <<>>, last |-> e]
               ELSE LET closes == {k \in (e + 1)..Len(s) : s[k] = "}"}
                    IN IF closes = {} THEN nomatch
                       ELSE LET c == CHOOSE k \in closes : \A k2 \in closes : k <= k2
                            IN [ok |-> TRUE, name |-> SubSeq(s, j, e - 1),
                                def |-> SubSeq(s, e + 1, c - 1), last |-> c]

\* resolveLocalEnvVars(in): [out, missing]
RECURSIVE ResolveFrom(_, _, _)
ResolveFrom(s, i, env) ==
  IF i > Len(s) THEN [out |-> <<>>, missing |-> <<>>]
  ELSE LET m == MatchLocalEnv(s, i)
       IN IF m.ok
            THEN LET rest == ResolveFrom(s, m.last + 1, env)
                     val == LookupEnv(env, m.name)
                 IN IF val # <<>>
                      THEN [out |-> val \o rest.out, missing |-> rest.missing]
                    ELSE IF m.def # <<>>
                      THEN [out |-> m.def \o rest.out, missing |-> rest.missing]
                    ELSE [out |-> SubSeq(s, i, m.last) \o rest.out,
                          missing |-> <<m.name>> \o rest.missing]
            ELSE LET rest == ResolveFrom(s, i + 1, env)
                 IN [out |-> <<s[i]>> \o rest.out, missing |-> rest.missing]

resolveLocalEnvVars(in, env) == ResolveFrom(in, 1, env)

\* uniqueStrings(in): first occurrences, in order
RECURSIVE uniqueStrings(_)
uniqueStrings(in) ==
  IF in = <<>> THEN <<>>
  ELSE LET front == uniqueStrings(SubSeq(in, 1, Len(in) - 1))
           x == in[Len(in)]
       IN IF \E i \in 1..Len(front) : front[i] = x THEN front ELSE Append(front, x)

\* the two ReplaceAll calls of expandVariableString for the keys of order, in order
RECURSIVE ReplaceVars(_, _, _)
ReplaceVars(s, vs, order) ==
  IF order = <<>> THEN s
  ELSE LET key == Head(order)
           r1 == ReplaceAll(s, <<"$", "{">> \o key \o <<"}">>, vs[key])
           r2 == ReplaceAll(r1, <<"$">> \o key, vs[key])
       IN ReplaceVars(r2, vs, Tail(order))

\* expandVariableString(s, vars) when the range over vars visits the keys in
\* the given order; the localEnv references are resolved last and the
\* missing names dropped.
expandVariableString(s, vs, order, env) ==
  resolveLocalEnvVars(ReplaceVars(s, vs, order), env).out

\* every result expandVariableString can give: Go does not fix the order of
\* a range over a map
ExpandStrSet(s, vs, env) ==
  {expandVariableString(s, vs, o, env) : o \in Orders(DOMAIN vs)}

\* expandInterface of ExpandVariables on a lifecycle command: a string, or a
\* list of strings
ExpandIfaceSet(cmd, vs, env) ==
  CASE cmd.kind = "str" -> {IStr(x) : x \in ExpandStrSet(cmd.str, vs, env)}
    [] cmd.kind = "list" ->
         {IList(l) :
            l \in SeqChoices([i \in 1..Len(cmd.list) |-> ExpandStrSet(cmd.list[i], vs, env)])}
    [] OTHER -> {cmd}

\* m[key].(string) on a mount map
HasStr(m, key) == key \in DOMAIN m /\ m[key].kind = "str"

\* "Expand variables in mounts", one entry
ExpandMountSet(e, vs, env) ==
  IF e.kind = "str" THEN {MStr(x) : x \in ExpandStrSet(e.str, vs, env)}
  ELSE LET srcs == IF HasStr(e.m, "source")
                     THEN ExpandStrSet(e.m["source"].s, vs, env) ELSE {<<>>}
           tgts == IF HasStr(e.m, "target")
                     THEN ExpandStrSet(e.m["target"].s, vs, env) ELSE {<<>>}
       IN {MMap([k \in DOMAIN e.m |->
                   IF k = "source" /\ HasStr(e.m, k) THEN VStr(a)
                   ELSE IF k = "target" /\ HasStr(e.m, k) THEN VStr(b)
                   ELSE e.m[k]]) : a \in srcs, b \in tgts}

\* "Expand variables in NonComposeBase fields"
ExpandNcbSet(np, vs, env) ==
  IF np = NilPtr THEN {np}
  ELSE LET n == Deref(np)
           wms == IF n.WorkspaceMount = NilPtr THEN {NilPtr}
                  ELSE {Ptr(x) : x \in ExpandStrSet(Deref(n.WorkspaceMount), vs, env)}
           wfs == IF n.WorkspaceFolder = NilPtr THEN {NilPtr}
                  ELSE {Ptr(x) : x \in ExpandStrSet(Deref(n.WorkspaceFolder), vs, env)}
       IN {Ptr([n EXCEPT !.WorkspaceMount = wm, !.WorkspaceFolder = wf]) :
             wm \in wms, wf \in wfs}

\* "Expand variables in environment"
ExpandEnvSet(ep, vs, env) ==
  IF ep = NilPtr THEN {ep}
  ELSE LET m == Deref(ep)
           all == UNION {ExpandStrSet(m[k], vs, env) : k \in DOMAIN m}
       IN {Ptr(f) : f \in {g \in [DOMAIN m -> all] :
                             \A k \in DOMAIN m : g[k] \in ExpandStrSet(m[k], vs, env)}}

\* ExpandVariables(dc, vars): every descriptor the in-place expansion can
\* leave in dc (one per choice of map iteration orders)
ExpandVariables(dc, vs, env) ==
  {[dc EXCEPT !.InitializeCommand = h1, !.OnCreateCommand = h2,
              !.UpdateContentCommand = h3, !.PostCreateCommand = h4,
              !.PostStartCommand = h5, !.PostAttachCommand = h6,
              !.Mounts = ms, !.NonComposeBase = nc, !.ContainerEnv = ce,
              !.WorkspaceFolder = wf, !.WorkspaceMount = wm] :
     h1 \in ExpandIfaceSet(dc.InitializeCommand, vs, env),
     h2 \in ExpandIfaceSet(dc.OnCreateCommand, vs, env),
     h3 \in ExpandIfaceSet(dc.UpdateContentCommand, vs, env),
     h4 \in ExpandIfaceSet(dc.PostCreateCommand, vs, env),
     h5 \in ExpandIfaceSet(dc.PostStartCommand, vs, env),
     h6 \in ExpandIfaceSet(dc.PostAttachCommand, vs, env),
     ms \in SeqChoices([i \in 1..Len(dc.Mounts) |-> ExpandMountSet(dc.Mounts[i], vs, env)]),
     nc \in ExpandNcbSet(dc.NonComposeBase, vs, env),
     ce \in ExpandEnvSet(dc.ContainerEnv, vs, env),
     wf \in IF dc.WorkspaceFolder # <<>>
              THEN ExpandStrSet(dc.WorkspaceFolder, vs, env) ELSE {<<>>},
     wm \in IF dc.WorkspaceMount # <<>>
              THEN ExpandStrSet(dc.WorkspaceMount, vs, env) ELSE {<<>>}}

----------------------------------------------------------------------------
(* Ports and mounts *)

\* fmt.Sprintf("%d:%d", int(p), int(p))
FormatPort(n) == <<ToString(n), ":", ToString(n)>>

\* the elements of a []interface{} of ports: numbers formatted, strings kept
RECURSIVE PortElems(_)
PortElems(l) ==
  IF l = <<>> THEN <<>>
  ELSE (IF Head(l).kind = "num" THEN <<FormatPort(Head(l).num)>>
        ELSE IF Head(l).kind = "str" THEN <<Head(l).str>>
        ELSE <<>>) \o PortElems(Tail(l))

\* parseForwardPorts: only a list yields ports
parseForwardPorts(ports) ==
  IF ports.kind = "list" THEN PortElems(ports.list) ELSE <<>>

\* parseAppPorts: a number, a string or a list
parseAppPorts(ports) ==
  CASE ports.kind = "num" -> <<FormatPort(ports.num)>>
    [] ports.kind = "str" -> <<ports.str>>
    [] ports.kind = "list" -> PortElems(ports.list)
    [] OTHER -> <<>>

\* the port loop without the portSet test
RECURSIVE AppendPortsNoSet(_, _)
AppendPortsNoSet(have, ports) ==
  IF ports = <<>> THEN have
  ELSE AppendPortsNoSet(Append(have, Head(ports)), Tail(ports))

\* for _, port := range ports { if !portSet[port] { append; portSet[port] = true } }
\* (portSet holds exactly the ports appended so far)
RECURSIVE AppendPorts(_, _)
AppendPorts(have, ports) ==
  IF ports = <<>> THEN have
  ELSE AppendPorts(
         IF \E i \in 1..Len(have) : have[i] = Head(ports)
           THEN have ELSE Append(have, Head(ports)),
         Tail(ports))

\* buildMountStringFromMap without the default type: the type is written
\* only when the map gives one
buildMountStringNoDefault(m) ==
  (IF HasStr(m, "type") THEN <<"type=">> \o m["type"].s ELSE <<>>)
  \o (IF HasStr(m, "source") THEN <<",", "source=">> \o m["source"].s ELSE <<>>)
  \o (IF HasStr(m, "target") THEN <<",", "target=">> \o m["target"].s ELSE <<>>)
  \o (IF "readonly" \in DOMAIN m /\ m["readonly"].kind = "bool" /\ m["readonly"].b
        THEN <<",", "readonly">> ELSE <<>>)

\* buildMountStringFromMap
buildMountStringFromMap(m) ==
  LET mountType == IF HasStr(m, "type") THEN m["type"].s ELSE <<"bind">>
  IN <<"type=">> \o mountType
     \o (IF HasStr(m, "source") THEN <<",", "source=">> \o m["source"].s ELSE <<>>)
     \o (IF HasStr(m, "target") THEN <<",", "target=">> \o m["target"].s ELSE <<>>)
     \o (IF "readonly" \in DOMAIN m /\ m["readonly"].kind = "bool" /\ m["readonly"].b
           THEN <<",", "readonly">> ELSE <<>>)

----------------------------------------------------------------------------
(* BuildDockerRunCommand *)

\* "Resolve ${localEnv:VAR[:default]} in mounts", one entry: [e, missing]
ResolveMount(e, env) ==
  IF e.kind = "str"
    THEN LET r == resolveLocalEnvVars(e.str, env)
         IN [e |-> MStr(r.out), missing |-> r.missing]
    ELSE LET rs == IF HasStr(e.m, "source")
                     THEN resolveLocalEnvVars(e.m["source"].s, env)
                     ELSE [out |-> <<>>, missing |-> <<>>]
             rt == IF HasStr(e.m, "target")
                     THEN resolveLocalEnvVars(e.m["target"].s, env)
                     ELSE [out |-> <<>>, missing |-> <<>>]
         IN [e |-> MMap([k \in DOMAIN e.m |->
                           IF k = "source" /\ HasStr(e.m, k) THEN VStr(rs.out)
                           ELSE IF k = "target" /\ HasStr(e.m, k) THEN VStr(rt.out)
                           ELSE e.m[k]]),
             missing |-> rs.missing \o rt.missing]

RECURSIVE ResolveMounts(_, _)
ResolveMounts(ms, env) ==
  IF ms = <<>> THEN [ms |-> <<>>, missing |-> <<>>]
  ELSE LET h == ResolveMount(Head(ms), env)
           t == ResolveMounts(Tail(ms), env)
       IN [ms |-> <<h.e>> \o t.ms, missing |-> h.missing \o t.missing]

\* "Handle mounts (can be strings or objects)"
RECURSIVE MountStrings(_)
MountStrings(ms) ==
  IF ms = <<>> THEN <<>>
  ELSE LET e == Head(ms)
           str == IF e.kind = "str" THEN e.str ELSE buildMountStringFromMap(e.m)
       IN (IF e.kind = "map" /\ str = <<>> THEN <<>> ELSE <<str>>)
          \o MountStrings(Tail(ms))

\* "Determine the image": [ok, image]
DetermineImage(dc) ==
  IF dc.ImageContainer # NilPtr THEN [ok |-> TRUE, image |-> Deref(dc.ImageContainer)]
  ELSE IF dc.Image # <<>> THEN [ok |-> TRUE, image |-> dc.Image]
  ELSE [ok |-> FALSE, image |-> <<>>]

\* a workspace folder that prefers the common field to the non-compose one
ConfigWorkspaceFolderCommonFirst(dc, workspaceFolder) ==
  IF dc.WorkspaceFolder # <<>> THEN dc.WorkspaceFolder
  ELSE IF dc.NonComposeBase # NilPtr /\ Deref(dc.NonComposeBase).WorkspaceFolder # NilPtr
    THEN Deref(Deref(dc.NonComposeBase).WorkspaceFolder)
  ELSE <<"/", "workspaces", "/">> \o FilepathBase(workspaceFolder)

\* "Set workspace folder"
ConfigWorkspaceFolder(dc, workspaceFolder) ==
  IF dc.NonComposeBase # NilPtr /\ Deref(dc.NonComposeBase).WorkspaceFolder # NilPtr
    THEN Deref(Deref(dc.NonComposeBase).WorkspaceFolder)
  ELSE IF dc.WorkspaceFolder = <<>>
    THEN <<"/", "workspaces", "/">> \o FilepathBase(workspaceFolder)
  ELSE dc.WorkspaceFolder

\* "Handle workspace mount"
ConfigWorkspaceMount(dc, workspaceFolder, target) ==
  IF dc.NonComposeBase # NilPtr /\ Deref(dc.NonComposeBase).WorkspaceMount # NilPtr
    THEN Deref(Deref(dc.NonComposeBase).WorkspaceMount)
  ELSE IF dc.WorkspaceMount # <<>> THEN dc.WorkspaceMount
  ELSE <<"type=", "bind", ",", "source=">> \o FilepathAbs(workspaceFolder)
       \o <<",", "target=">> \o target

\* "Handle ports with deduplication": app ports, NonComposeBase app ports,
\* forward ports
ConfigPorts(dc) ==
  LET p1 == AppendPorts(<<>>, parseAppPorts(dc.AppPort))
      p2 == IF dc.NonComposeBase # NilPtr
              THEN AppendPorts(p1, parseAppPorts(Deref(dc.NonComposeBase).AppPort))
              ELSE p1
  IN AppendPorts(p2, parseForwardPorts(dc.ForwardPorts))

\* "Create config": the plan of a descriptor whose image and container
\* workspace folder wf are determined
BuildConfig(dc, image, wf, workspaceFolder) ==
  [Image |-> image,
   WorkspaceMount |-> ConfigWorkspaceMount(dc, workspaceFolder, wf),
   WorkspaceFolder |-> wf,
   Environment |-> IF dc.ContainerEnv = NilPtr THEN EmptyMap
                   ELSE Deref(dc.ContainerEnv),
   Ports |-> ConfigPorts(dc),
   Mounts |-> MountStrings(dc.Mounts),
   CapAdd |-> dc.CapAdd, Capabilities |-> dc.CapAdd,
   SecurityOpt |-> dc.SecurityOpt, SecurityOpts |-> dc.SecurityOpt,
   Init |-> IF dc.Init # NilPtr THEN Deref(dc.Init) ELSE FALSE,
   Privileged |-> IF dc.Privileged # NilPtr THEN Deref(dc.Privileged) ELSE FALSE,
   User |-> IF dc.ContainerUser # NilPtr THEN Deref(dc.ContainerUser) ELSE <<>>,
   Name |-> IF dc.Name # NilPtr THEN Deref(dc.Name) ELSE <<>>,
   Command |-> <<>>,
   RunArgs |-> IF dc.NonComposeBase # NilPtr
                 THEN Deref(dc.NonComposeBase).RunArgs ELSE <<>>]

\* BuildDockerRunCommand once the mounts of dc are resolved, missingNames
\* being the localEnv names found unset:
\* [dc: the caller's descriptor afterwards, err, missing, config]
BuildResolved(dc, missingNames, workspaceFolder) ==
  IF Len(missingNames) > 0
    THEN [dc |-> dc, err |-> "unresolved localEnv variables in devcontainer mounts",
          missing |-> uniqueStrings(missingNames), config |-> EmptyConfig]
  ELSE IF ~DetermineImage(dc).ok
    THEN [dc |-> dc, err |-> "no image specified", missing |-> <<>>,
          config |-> EmptyConfig]
  ELSE [dc |-> dc, err |-> "", missing |-> <<>>,
        config |-> BuildConfig(dc, DetermineImage(dc).image,
                               ConfigWorkspaceFolder(dc, workspaceFolder),
                               workspaceFolder)]

\* BuildDockerRunCommand after ExpandVariables has left dcE in dc
BuildFromExpanded(dcE, workspaceFolder, env) ==
  BuildResolved([dcE EXCEPT !.Mounts = ResolveMounts(dcE.Mounts, env).ms],
                ResolveMounts(dcE.Mounts, env).missing, workspaceFolder)

\* BuildDockerRunCommand(dc, workspaceFolder): every outcome it can have
BuildDockerRunCommand(dc, workspaceFolder, env) ==
  {BuildFromExpanded(d, workspaceFolder, env) :
     d \in ExpandVariables(dc, GetStandardVariables(workspaceFolder), env)}

----------------------------------------------------------------------------
(* DockerRunConfig *)

RECURSIVE FlagEach(_, _)
FlagEach(flag, values) ==
  IF values = <<>> THEN <<>>
  ELSE <<flag, Head(values)>> \o FlagEach(flag, Tail(values))

\* ToDockerRunArgs, the range over c.Environment visiting the keys in envOrder
\* a variant that appends the mounts before the extra run-args
ToDockerRunArgsMountsFirst(c, envOrder) ==
  LET caps == IF Len(c.CapAdd) = 0 /\ Len(c.Capabilities) > 0
                THEN c.Capabilities ELSE c.CapAdd
      opts == IF Len(c.SecurityOpt) = 0 /\ Len(c.SecurityOpts) > 0
                THEN c.SecurityOpts ELSE c.SecurityOpt
  IN << <<"run">>, <<"--rm">>, <<"-it">> >>
     \o (IF c.Name # <<>> THEN << <<"--name">>, c.Name >> ELSE <<>>)
     \o (IF c.WorkspaceMount # <<>> /\ c.WorkspaceMount # <<"none">>
           THEN << <<"-v">>, c.WorkspaceMount >> ELSE <<>>)
     \o (IF c.WorkspaceFolder # <<>> THEN << <<"-w">>, c.WorkspaceFolder >> ELSE <<>>)
     \o FlagEach(<<"-e">>,
                 [i \in 1..Len(envOrder) |->
                    <<envOrder[i], "=">> \o c.Environment[envOrder[i]]])
     \o FlagEach(<<"-p">>, c.Ports)
     \o FlagEach(<<"--mount">>, c.Mounts)
     \o c.RunArgs
     \o FlagEach(<<"--cap-add">>, caps)
     \o FlagEach(<<"--security-opt">>, opts)
     \o (IF c.Init THEN << <<"--init">> >> ELSE <<>>)
     \o (IF c.Privileged THEN << <<"--privileged">> >> ELSE <<>>)
     \o (IF c.User # <<>> THEN << <<"-u">>, c.User >> ELSE <<>>)
     \o << c.Image >>
     \o c.Command

ToDockerRunArgs(c, envOrder) ==
  LET caps == IF Len(c.CapAdd) = 0 /\ Len(c.Capabilities) > 0
                THEN c.Capabilities ELSE c.CapAdd
      opts == IF Len(c.SecurityOpt) = 0 /\ Len(c.SecurityOpts) > 0
                THEN c.SecurityOpts ELSE c.SecurityOpt
  IN << <<"run">>, <<"--rm">>, <<"-it">> >>
     \o (IF c.Name # <<>> THEN << <<"--name">>, c.Name >> ELSE <<>>)
     \o (IF c.WorkspaceMount # <<>> /\ c.WorkspaceMount # <<"none">>
           THEN << <<"-v">>, c.WorkspaceMount >> ELSE <<>>)
     \o (IF c.WorkspaceFolder # <<>> THEN << <<"-w">>, c.WorkspaceFolder >> ELSE <<>>)
     \o FlagEach(<<"-e">>,
                 [i \in 1..Len(envOrder) |->
                    <<envOrder[i], "=">> \o c.Environment[envOrder[i]]])
     \o FlagEach(<<"-p">>, c.Ports)
     \o c.RunArgs
     \o FlagEach(<<"--mount">>, c.Mounts)
     \o FlagEach(<<"--cap-add">>, caps)
     \o FlagEach(<<"--security-opt">>, opts)
     \o (IF c.Init THEN << <<"--init">> >> ELSE <<>>)
     \o (IF c.Privileged THEN << <<"--privileged">> >> ELSE <<>>)
     \o (IF c.User # <<>> THEN << <<"-u">>, c.User >> ELSE <<>>)
     \o << c.Image >>
     \o c.Command

\* the decimal numerals strconv.Atoi accepts, among the lexemes of the model
Numerals == {ToString(n) : n \in {80, 443, 3000, 5000, 8080}}
AtoiOk(s) == Len(s) = 1 /\ s[1] \in Numerals

\* Validate's check of one port without the strconv.Atoi test
PortOkAnyWord(port) == Count(port, ":") <= 1

\* Validate's check of one port
PortOk(port) ==
  LET colonCount == Count(port, ":")
  IN IF colonCount = 0 THEN AtoiOk(port) ELSE colonCount <= 1

\* Validate: the error message, "" for nil
Validate(c) ==
  IF c.Image = <<>> THEN "image is required"
  ELSE IF \E i \in 1..Len(c.Mounts) :
            /\ ~Contains(c.Mounts[i], <<"type=">>)
            /\ \A j \in 1..(i - 1) :
                 Contains(c.Mounts[j], <<"type=">>) /\ Contains(c.Mounts[j], <<"target=">>)
    THEN "mount missing type="
  ELSE IF \E i \in 1..Len(c.Mounts) : ~Contains(c.Mounts[i], <<"target=">>)
    THEN "mount missing target="
  ELSE IF \E i \in 1..Len(c.Ports) : ~PortOk(c.Ports[i])
    THEN "invalid port format"
  ELSE ""

----------------------------------------------------------------------------
(* Manager.applyCustomMounts *)

\* the custom mounts "in devcontainer object format"
CustomAsMaps(customMounts) ==
  [i \in 1..Len(customMounts) |->
     MMap([type |-> VStr(customMounts[i].Type),
           source |-> VStr(customMounts[i].Source),
           target |-> VStr(customMounts[i].Target),
           readonly |-> VBool(customMounts[i].ReadOnly)])]

\* "Track targets we will override to avoid duplicates"
CustomTargets(custom) ==
  {custom[i].m["target"].s : i \in {k \in 1..Len(custom) : custom[k].m["target"].s # <<>>}}

\* the copy of the existing mounts without the test for overridden targets
KeepExistingAll(ms, targets) == ms

\* "copy existing mounts that are not overridden by a custom mount (object-style)"
RECURSIVE KeepExisting(_, _)
KeepExisting(ms, targets) ==
  IF ms = <<>> THEN <<>>
  ELSE LET em == Head(ms)
           skip == /\ em.kind = "map"
                   /\ HasStr(em.m, "target")
                   /\ em.m["target"].s # <<>>
                   /\ em.m["target"].s \in targets
       IN (IF skip THEN <<>> ELSE <<em>>) \o KeepExisting(Tail(ms), targets)

\* applyCustomMounts(dc): the descriptor afterwards
applyCustomMounts(dc, customMounts) ==
  LET custom == CustomAsMaps(customMounts)
      merged == KeepExisting(dc.Mounts, CustomTargets(custom)) \o custom
  IN [dc EXCEPT !.Mounts = merged,
                !.WorkspaceMount = <<"none">>,
                !.WorkspaceFolder = IF @ = <<>> THEN <<"/", "workspace">> ELSE @]

----------------------------------------------------------------------------
(* The build scenario: a caller holds a descriptor, injects the configured *)
(* custom mounts (Manager.Create), builds the plan, validates it and emits *)
(* the argument vector; then resolves the same inputs a second time.       *)

MaxPorts == 2
MaxMounts == 2

SeqsUpTo(S, n) == UNION {[1..k -> S] : k \in 0..n}

Img == <<"ubuntu", ":", "22.04">>
Img2 == <<"alpine">>
ImgLit == [EmptyLit EXCEPT !.Image = Img, !.ImageContainer = Ptr(Img)]
Root == <<"/", "home", "/", "app">>
NoHostEnv == [n \in {<<"NOPE">>} |-> <<>>]
HostEnvs == {NoHostEnv, [n \in {<<"NOPE">>} |-> <<"hv">>]}

RefNope == <<"$", "{", "localEnv", ":", "NOPE", "}">>
RefNopeDefault == <<"$", "{", "localEnv", ":", "NOPE", ":", "dflt", "}">>
BareBasename == <<"$", "localWorkspaceFolder", "Basename">>

BuildPortElems ==
  {PNum(3000), PNum(8080), PStr(<<"3000", ":", "3000">>),
   PStr(<<"8080", ":", "80", ":", "tcp">>), PStr(<<"3000">>), PStr(<<"web">>)}

BuildMountElems ==
  {MMap([type |-> VStr(<<"bind">>), source |-> VStr(<<"/a">>), target |-> VStr(<<"/data">>)]),
   MStr(<<"type=", "bind", ",", "source=", "/b", ",", "target=", "/data">>),
   MStr(<<"source=", "/c", ",", "target=", "/other">>),
   MMap([source |-> VStr(<<"cache">>), target |-> VStr(<<"/cache">>),
         readonly |-> VBool(TRUE)]),
   MMap([type |-> VStr(<<"volume">>), source |-> VStr(<<"vol">>)]),
   MStr(<<"type=", "bind", ",", "source=">> \o RefNope \o <<",", "target=", "/h">>),
   MMap([type |-> VStr(<<"bind">>), source |-> VStr(RefNope \o <<"/x">>),
         target |-> VStr(<<"/data">>)])}

\* one mount written three ways: as a map, as a string in the order
\* buildMountStringFromMap writes, and as a string in the order of the tests
SameMountElems ==
  {MMap([type |-> VStr(<<"bind">>), source |-> VStr(<<"/tmp">>), target |-> VStr(<<"/tmp">>)]),
   MStr(<<"type=", "bind", ",", "source=", "/tmp", ",", "target=", "/tmp">>),
   MStr(<<"source=", "/tmp", ",", "target=", "/tmp", ",", "type=", "bind">>)}

CustomData == [Type |-> <<"bind">>, Source |-> <<"/new">>, Target |-> <<"/data">>, ReadOnly |-> FALSE]
CustomCache == [Type |-> <<"volume">>, Source |-> <<>>, Target |-> <<"/cache">>, ReadOnly |-> TRUE]
CustomMountLists ==
  {<<>>, <<CustomData>>, <<CustomCache>>, <<CustomData, CustomCache>>,
   <<CustomCache, CustomData>>, <<CustomData, CustomData>>}

\* mounts as a descriptor file writes them: the schema's key readOnly, a
\* kind docker does not know, a target left empty
SchemaMountElems ==
  {MMap([type |-> VStr(<<"bind">>), source |-> VStr(<<"/s">>), target |-> VStr(<<"/ro">>),
         readOnly |-> VBool(TRUE)]),
   MMap([type |-> VStr(<<"volume">>), source |-> VStr(<<"vol">>), target |-> VStr(<<"/v">>),
         readOnly |-> VBool(FALSE)]),
   MMap([type |-> VStr(<<"tmpfs">>), target |-> VStr(<<"/tmp">>)]),
   MMap([type |-> VStr(<<"nfs">>), source |-> VStr(<<"/s">>), target |-> VStr(<<"/n">>)]),
   MStr(<<"type=", "bind", ",", "source=", "/s", ",", "target=">>)}

PlainInput(d) == [dc |-> d, customMounts |-> <<>>, hostEnv |-> NoHostEnv, wsRoot |-> Root]

\* The inputs, varied one family of fields at a time.
BuildInputs(g) ==
  CASE g = "selector" ->
         {PlainInput([EmptyLit EXCEPT !.Image = i, !.ImageContainer = ic,
                        !.DockerfileContainer = df, !.ComposeContainer = cc,
                        !.Name = n, !.Init = it]) :
            i \in {<<>>, Img}, ic \in {NilPtr, Ptr(Img2)},
            df \in {<<>>, <<"Dockerfile">>}, cc \in {NilPtr, Ptr(<<"app">>)},
            n \in {NilPtr, Ptr(<<"dev">>)}, it \in {NilPtr, Ptr(TRUE)}}
    [] g = "ports" ->
         {PlainInput([ImgLit EXCEPT !.AppPort = a, !.NonComposeBase = nc,
                        !.ForwardPorts = f]) :
            a \in {INil, INum(3000), IStr(<<"3000", ":", "3000">>),
                   IList(<<PNum(8080), PNum(3000)>>)},
            nc \in {NilPtr, Ptr([EmptyNcb EXCEPT !.AppPort = INum(3000)]),
                    Ptr([EmptyNcb EXCEPT !.AppPort = IList(<<PNum(5000)>>),
                                         !.RunArgs = << <<"--network">>, <<"host">> >>])},
            f \in {INil} \cup {IList(l) : l \in SeqsUpTo(BuildPortElems, MaxPorts)}}
    [] g = "mounts" ->
         {[dc |-> [ImgLit EXCEPT !.Mounts = ms], customMounts |-> cm,
           hostEnv |-> he, wsRoot |-> Root] :
            ms \in SeqsUpTo(BuildMountElems, MaxMounts), cm \in CustomMountLists,
            he \in HostEnvs}
    [] g = "env" ->
         {[dc |-> [ImgLit EXCEPT !.ContainerEnv = ce, !.InitializeCommand = h,
                                 !.WorkspaceFolder = wf, !.WorkspaceMount = wm],
           customMounts |-> <<>>, hostEnv |-> he, wsRoot |-> Root] :
            ce \in {NilPtr} \cup
                   UNION {{Ptr(m) : m \in [ks -> {<<"v">>, RefNope, BareBasename}]} :
                            ks \in SUBSET EnvKeys},
            h \in {INil, IStr(RefNope), IList(<< <<"echo">>, RefNopeDefault >>)},
            wf \in {<<>>, <<"/w/">> \o RefNope},
            wm \in {<<>>, <<"type=", "bind", ",", "source=">> \o RefNope
                          \o <<",", "target=", "/w">>},
            he \in HostEnvs}
    [] g = "canon" ->
         {PlainInput([ImgLit EXCEPT !.Mounts = ms]) :
            ms \in SeqsUpTo(SameMountElems, MaxMounts)}
    [] g = "workspace" ->
         {[dc |-> [ImgLit EXCEPT !.WorkspaceFolder = wf, !.WorkspaceMount = wm,
                                 !.NonComposeBase = nc],
           customMounts |-> <<>>, hostEnv |-> NoHostEnv, wsRoot |-> root] :
            wf \in {<<>>, <<"/w">>, <<"/src/">> \o BareBasename},
            wm \in {<<>>, <<"type=", "bind", ",", "source=", "/s", ",", "target=", "/w">>},
            nc \in {NilPtr} \cup
                   {Ptr([EmptyNcb EXCEPT !.WorkspaceFolder = nf, !.WorkspaceMount = nm]) :
                      nf \in {NilPtr, Ptr(<<"/app">>)},
                      nm \in {NilPtr,
                              Ptr(<<"type=", "bind", ",", "source=", "/local", ",",
                                    "target=", "/app">>)}},
            root \in {Root, Root \o <<"/">>}}
    [] g = "runargs" ->
         {PlainInput([ImgLit EXCEPT !.Name = n, !.ContainerUser = u,
                        !.NonComposeBase = Ptr([EmptyNcb EXCEPT !.RunArgs = ra])]) :
            n \in {NilPtr, Ptr(<<"dev">>)}, u \in {NilPtr, Ptr(<<"root">>)},
            ra \in {<<>>, << <<"--network">>, <<"host">> >>,
                    << <<"--gpus">>, <<"all">> >>, << <<"--network=", "host">> >>}}

    [] g = "schema" ->
         {PlainInput([ImgLit EXCEPT !.Mounts = ms]) :
            ms \in SeqsUpTo(SchemaMountElems, MaxMounts)}

BuildGroups ==
  {"selector", "ports", "mounts", "env", "canon", "workspace", "runargs", "schema"}

\* the merge scenario's variables while the build scenario runs
MergeIdle ==
  /\ mpc = "idle" /\ inBase = NilInput /\ inOverride = NilInput
  /\ envHeap = <<>> /\ ncbHeap = <<>>
  /\ base = NilPtr /\ override = NilPtr /\ result = NilPtr

Init ==
  /\ MergeIdle
  /\ ExtendsIdle
  /\ bpc = "start"
  /\ run = 1
  /\ \E g \in BuildGroups : \E in \in BuildInputs(g) :
       /\ inDc = in.dc
       /\ devContainer = in.dc
       /\ managerMounts = in.customMounts
       /\ hostEnv = in.hostEnv
       /\ wsRoot = in.wsRoot
  /\ buildErr = "" /\ missing = <<>> /\ config = EmptyConfig
  /\ valid = "" /\ args = <<>>
  /\ prevConfig = EmptyConfig /\ prevArgs = <<>>

\* Manager.Create: "Apply custom mounts if configured"
ApplyCustomMounts ==
  /\ bpc = "start"
  /\ Len(managerMounts) > 0
  /\ devContainer' = applyCustomMounts(devContainer, managerMounts)
  /\ bpc' = "mounted"
  /\ UNCHANGED <<run, inDc, wsRoot, hostEnv, managerMounts, buildErr, missing,
                 config, valid, args, prevConfig, prevArgs, mergeVars, extVars, resVars, auxVars>>

\* config, err := BuildDockerRunCommand(dc, workspaceFolder)
Build ==
  /\ \/ bpc = "mounted"
     \/ bpc = "start" /\ Len(managerMounts) = 0
  /\ \E o \in BuildDockerRunCommand(devContainer, wsRoot, hostEnv) :
       /\ devContainer' = o.dc
       /\ buildErr' = o.err
       /\ missing' = o.missing
       /\ config' = o.config
       /\ bpc' = IF o.err = "" THEN "built" ELSE "failed"
  /\ UNCHANGED <<run, inDc, wsRoot, hostEnv, managerMounts, valid, args,
                 prevConfig, prevArgs, mergeVars, extVars, resVars, auxVars>>

\* err := config.Validate()
ValidateConfig ==
  /\ bpc = "built"
  /\ valid' = Validate(config)
  /\ bpc' = "validated"
  /\ UNCHANGED <<run, inDc, wsRoot, hostEnv, managerMounts, devContainer, buildErr, missing,
                 config, args, prevConfig, prevArgs, mergeVars, extVars, resVars, auxVars>>

\* args := config.ToDockerRunArgs()
EmitArgs ==
  /\ bpc = "validated"
  /\ \E envOrder \in Orders(DOMAIN config.Environment) :
       args' = ToDockerRunArgs(config, envOrder)
  /\ bpc' = "emitted"
  /\ UNCHANGED <<run, inDc, wsRoot, hostEnv, managerMounts, devContainer, buildErr, missing,
                 config, valid, prevConfig, prevArgs, mergeVars, extVars, resVars, auxVars>>

\* The caller resolves the same inputs once more.
Rerun ==
  /\ bpc \in {"emitted", "failed"}
  /\ run = 1
  /\ run' = 2
  /\ prevConfig' = config
  /\ prevArgs' = args
  /\ devContainer' = inDc
  /\ bpc' = "start"
  /\ buildErr' = "" /\ missing' = <<>> /\ config' = EmptyConfig
  /\ valid' = "" /\ args' = <<>>
  /\ UNCHANGED <<inDc, wsRoot, hostEnv, managerMounts, mergeVars, extVars, resVars, auxVars>>

Next == ApplyCustomMounts \/ Build \/ ValidateConfig \/ EmitArgs \/ Rerun

Spec == Init /\ [][Next]_vars

----------------------------------------------------------------------------
(* Properties of the build scenario *)

\* BuildDockerRunCommand has returned a plan (err == nil)
BuiltOk == bpc \in {"built", "validated", "emitted"}

\* C1: resolving identical inputs twice (BuildDockerRunCommand, then
\* ToDockerRunArgs) gives the same DockerRunConfig and the same argument
\* vector, element for element, the order of the -e flags included.
C1_Idempotent ==
  (run = 2 /\ bpc = "emitted") => (config = prevConfig /\ args = prevArgs)

\* s holds a ${localEnv:NOPE} reference without default
MentionsNope(s) == Contains(s, RefNope)

IfaceMentionsNope(cmd) ==
  \/ cmd.kind = "str" /\ MentionsNope(cmd.str)
  \/ cmd.kind = "list" /\ \E i \in 1..Len(cmd.list) : MentionsNope(cmd.list[i])

MountMentionsNope(e) ==
  \/ e.kind = "str" /\ MentionsNope(e.str)
  \/ e.kind = "map" /\ \E k \in {"source", "target"} :
       HasStr(e.m, k) /\ MentionsNope(e.m[k].s)

\* some expanded field of d holds the reference
NopeReferenced(d) ==
  \/ d.ContainerEnv # NilPtr
       /\ \E k \in DOMAIN Deref(d.ContainerEnv) : MentionsNope(Deref(d.ContainerEnv)[k])
  \/ IfaceMentionsNope(d.InitializeCommand) \/ IfaceMentionsNope(d.OnCreateCommand)
  \/ IfaceMentionsNope(d.UpdateContentCommand) \/ IfaceMentionsNope(d.PostCreateCommand)
  \/ IfaceMentionsNope(d.PostStartCommand) \/ IfaceMentionsNope(d.PostAttachCommand)
  \/ MentionsNope(d.WorkspaceMount) \/ MentionsNope(d.WorkspaceFolder)
  \/ \E i \in 1..Len(d.Mounts) : MountMentionsNope(d.Mounts[i])

\* C7: when a ${localEnv:NAME} reference without default stands in any
\* expanded field (environment value, lifecycle hook, workspace mount,
\* workspace folder, mount source or target) and the host gives NAME no
\* non-empty value, BuildDockerRunCommand fails with the unresolved-variable
\* error, which lists NAME exactly once.
C7_MissingReferenceFails ==
  (/\ bpc \in {"built", "failed"}
   /\ managerMounts = <<>>
   /\ NopeReferenced(inDc)
   /\ LookupEnv(hostEnv, <<"NOPE">>) = <<>>)
  => (/\ bpc = "failed"
      /\ buildErr = "unresolved localEnv variables in devcontainer mounts"
      /\ missing = << <<"NOPE">> >>)

ImageSelected(d) == d.Image # <<>> \/ d.ImageContainer # NilPtr
DockerfileSelected(d) == d.DockerfileContainer # <<>>
ComposeSelected(d) == d.ComposeContainer # NilPtr

\* C8: BuildDockerRunCommand succeeds only when the image selector, and no
\* other, is populated: a dockerfile or compose selector is rejected, also
\* beside an image, and a descriptor with no selector gets the no-image error.
C8_ExactlyOneSelector ==
  /\ BuiltOk =>
       (ImageSelected(inDc) /\ ~DockerfileSelected(inDc) /\ ~ComposeSelected(inDc))
  /\ (bpc = "failed" /\ Len(inDc.Mounts) = 0 /\ ~ImageSelected(inDc)
      /\ ~DockerfileSelected(inDc) /\ ~ComposeSelected(inDc))
       => buildErr = "no image specified"

\* a declared port as the claim normalises it: N becomes "N:N", a string stays
NormPort(e) ==
  IF e.kind = "num" THEN <<ToString(e.num), ":", ToString(e.num)>> ELSE e.str

\* the ports an appPort value declares: one number, one string or a list
DeclaredPorts(p) ==
  CASE p.kind = "num" -> <<PNum(p.num)>>
    [] p.kind = "str" -> <<PStr(p.str)>>
    [] p.kind = "list" -> p.list
    [] OTHER -> <<>>

NormPorts(l) == [i \in 1..Len(l) |-> NormPort(l[i])]

\* app ports, then the non-compose app ports, then the forwarded ports
PortCandidates ==
  NormPorts(DeclaredPorts(inDc.AppPort))
  \o (IF inDc.NonComposeBase # NilPtr
        THEN NormPorts(DeclaredPorts(Deref(inDc.NonComposeBase).AppPort)) ELSE <<>>)
  \o NormPorts(inDc.ForwardPorts.list)

FirstAt(l, x) == CHOOSE i \in 1..Len(l) : l[i] = x /\ \A j \in 1..(i - 1) : l[j] # x

\* C9: the resolved port list holds the normalised app ports, non-compose
\* app ports and forwarded ports, no string twice, each at the place of its
\* first occurrence in that order.
C9_PortsDeduplicated ==
  BuiltOk =>
    /\ \A i, j \in 1..Len(config.Ports) : i # j => config.Ports[i] # config.Ports[j]
    /\ {config.Ports[i] : i \in 1..Len(config.Ports)}
         = {PortCandidates[i] : i \in 1..Len(PortCandidates)}
    /\ \A i, j \in 1..Len(config.Ports) :
         i < j => FirstAt(PortCandidates, config.Ports[i])
                    < FirstAt(PortCandidates, config.Ports[j])

\* C9's case: a number declared as app port and again among the forwarded
\* ports, next to another forwarded port, and the plan built.
C9_Witness ==
  /\ bpc = "built"
  /\ inDc.AppPort.kind = "num"
  /\ Len(inDc.ForwardPorts.list) = 2
  /\ Len(PortCandidates) > Len(config.Ports)
  /\ Len(config.Ports) >= 2

\* the injected mount as the plan renders it
InjectedString(cm) == buildMountStringFromMap(CustomAsMaps(<<cm>>)[1].m)

InjectedStrings == [k \in 1..Len(managerMounts) |-> InjectedString(managerMounts[k])]

InjectedTargets == {managerMounts[k].Target : k \in 1..Len(managerMounts)}

\* the target a mount string names, "" when it names none
TargetOf(s) ==
  IF \E i \in 1..(Len(s) - 1) : s[i] = "target=" /\ s[i + 1] # ","
    THEN LET i == CHOOSE k \in 1..(Len(s) - 1) :
                    s[k] = "target=" /\ \A j \in 1..(k - 1) : s[j] # "target="
         IN <<s[i + 1]>>
    ELSE <<>>

\* a declared entry as the plan renders it once resolved against the host
Rendered(e) == MountStrings(<<ResolveMount(e, hostEnv).e>>)

RECURSIVE RenderedAll(_)
RenderedAll(ms) ==
  IF ms = <<>> THEN <<>> ELSE Rendered(Head(ms)) \o RenderedAll(Tail(ms))

\* a mount string whose target no injected mount has
OtherString(s) == TargetOf(s) \notin InjectedTargets

\* C6: after injection and build, every injected target has exactly one
\* entry in the resolved mount list, the injected one, whether the declared
\* mount with that target was a structured map or a comma-joined string;
\* the declared mounts with other targets keep their order and the injected
\* mounts follow them.  (Stated for injected mounts with distinct targets.)
C6_OneEntryPerInjectedTarget ==
  (/\ BuiltOk
   /\ Len(managerMounts) > 0
   /\ \A k, l \in 1..Len(managerMounts) :
        k # l => managerMounts[k].Target # managerMounts[l].Target)
  => /\ \A k \in 1..Len(managerMounts) :
          LET hits == {i \in 1..Len(config.Mounts) :
                         TargetOf(config.Mounts[i]) = managerMounts[k].Target}
          IN /\ Cardinality(hits) = 1
             /\ \A i \in hits : config.Mounts[i] = InjectedString(managerMounts[k])
     /\ config.Mounts =
          SelectSeq(RenderedAll(inDc.Mounts), OtherString) \o InjectedStrings

\* a declared entry that injection keeps: anything but a structured map whose
\* written, non-empty target is the target of an injected mount
Survives(e) ==
  ~(/\ e.kind = "map"
    /\ "target" \in DOMAIN e.m
    /\ e.m["target"].kind = "str"
    /\ e.m["target"].s # <<>>
    /\ e.m["target"].s \in InjectedTargets)

\* C6 as amended: the resolved mount list is the declared mounts in their
\* order, less the structured maps whose written target is an injected
\* target, followed by all injected mounts in the order given; a declared
\* string mount is kept whatever its target.
C6_StructuredReplaced ==
  (BuiltOk /\ Len(managerMounts) > 0)
  => config.Mounts = RenderedAll(SelectSeq(inDc.Mounts, Survives)) \o InjectedStrings

\* C6's case: a structured mount of /data and another mount declared, a
\* mount of /data injected, and the plan holds the other mount first and
\* one /data entry, the injected one.
C6_Witness ==
  /\ bpc = "built"
  /\ Len(inDc.Mounts) = 2
  /\ inDc.Mounts[1].kind = "map" /\ HasStr(inDc.Mounts[1].m, "target")
  /\ inDc.Mounts[1].m["target"].s = <<"/data">>
  /\ Survives(inDc.Mounts[2])
  /\ managerMounts = <<CustomData>>
  /\ Len(config.Mounts) = 2
  /\ config.Mounts[2] = InjectedString(CustomData)
  /\ TargetOf(config.Mounts[1]) # <<"/data">>

WellFormedMount(e) ==
  IF e.kind = "str"
    THEN Contains(e.str, <<"type=">>) /\ Contains(e.str, <<"target=">>)
    ELSE "target" \in DOMAIN e.m /\ e.m["target"].kind = "str"

\* a port string with one colon, or a bare integer
WellFormedPort(p) == Count(p, ":") = 1 \/ (Count(p, ":") = 0 /\ AtoiOk(p))

----------------------------------------------------------------------------
(* The validation scenario: a caller holds a DockerRunConfig built in Go,  *)
(* validates it and, as the README's buildCommand does, produces the       *)
(* argument vector only when Validate returned nil.                        *)

ValidateMounts ==
  {<<"type=", "volume", ",", "source=", "data", ",", "target=", "/data">>,
   <<"source=", "/host", ",", "target=", "/container">>,
   <<"type=", "bind", ",", "source=", "/host">>,
   <<"target=", "/t", ",", "type=", "bind">>}

ValidatePorts ==
  {<<"8080", ":", "80">>, <<"3000">>, <<"8080", ":", "80", ":", "tcp">>, <<"web">>,
   <<"web", ":", "x">>}

\* plans with every field of DockerRunConfig set or left empty
FullConfigs ==
  {[Image |-> Img, WorkspaceMount |-> wm, WorkspaceFolder |-> wf,
    Environment |-> env, Ports |-> ps, Mounts |-> ms,
    CapAdd |-> cs[1], Capabilities |-> cs[2], SecurityOpt |-> so,
    SecurityOpts |-> <<>>, Init |-> it, Privileged |-> pr,
    User |-> u, Name |-> n, Command |-> cmd, RunArgs |-> ra] :
     wm \in {<<>>, <<"none">>, <<"type=", "bind", ",", "source=", "/s", ",", "target=", "/w">>},
     wf \in {<<>>, <<"/w">>},
     env \in {EmptyMap, [K1 |-> <<"v">>, K2 |-> <<"w">>]},
     ps \in {<<>>, << <<"3000">>, <<"8080", ":", "80">> >>},
     ms \in {<<>>, << <<"type=", "volume", ",", "source=", "data", ",", "target=", "/data">>,
                      <<"type=", "tmpfs", ",", "target=", "/tmp">> >>},
     cs \in {<< <<>>, <<>> >>, << << <<"SYS_PTRACE">> >>, <<>> >>,
             << <<>>, << <<"NET_ADMIN">> >> >>},
     so \in {<<>>, << <<"seccomp=", "unconfined">> >>},
     it \in BOOLEAN, pr \in BOOLEAN,
     u \in {<<>>, <<"root">>}, n \in {<<>>, <<"dev">>},
     cmd \in {<<>>, << <<"sleep">>, <<"infinity">> >>},
     ra \in {<<>>, << <<"--network">>, <<"host">> >>}}

ValidateConfigs ==
  {[EmptyConfig EXCEPT !.Image = i, !.Mounts = ms, !.Ports = ps] :
     i \in {<<>>, Img}, ms \in SeqsUpTo(ValidateMounts, MaxMounts),
     ps \in SeqsUpTo(ValidatePorts, MaxPorts)}
  \cup FullConfigs

\* strings.Split(s, ",")
RECURSIVE SplitComma(_, _)
SplitComma(s, part) ==
  IF s = <<>> THEN <<part>>
  ELSE IF Head(s) = "," THEN <<part>> \o SplitComma(Tail(s), <<>>)
  ELSE SplitComma(Tail(s), Append(part, Head(s)))

\* the words that end in "=": what strings.SplitN(part, "=", 2) splits after
KeyWords == {"type=", "source=", "target="}

\* mountParts and mountReadOnly after the parts up to the i-th
RECURSIVE ParseMountParts(_, _, _)
ParseMountParts(parts, i, honourRw) ==
  IF i = 0 THEN [parts |-> EmptyMap, readOnly |-> FALSE]
  ELSE LET before == ParseMountParts(parts, i - 1, honourRw)
           part == parts[i]
       IN IF part \in {<<"readonly">>, <<"ro">>} THEN [before EXCEPT !.readOnly = TRUE]
          ELSE IF honourRw /\ part = <<"rw">> THEN [before EXCEPT !.readOnly = FALSE]
          ELSE IF part # <<>> /\ part[1] \in KeyWords
            THEN [before EXCEPT !.parts = Overlay(@, [k \in {part[1]} |-> Tail(part)])]
          ELSE before

\* the mount.Mount CreateContainer makes of a mount string
EngineMount(mountStr, honourRw) ==
  LET p == ParseMountParts(SplitComma(mountStr, <<>>), Len(SplitComma(mountStr, <<>>)),
                           honourRw)
      field(k) == IF k \in DOMAIN p.parts THEN p.parts[k] ELSE <<>>
  IN [Type |-> IF field("type=") \in {<<"volume">>, <<"tmpfs">>} THEN field("type=")
               ELSE <<"bind">>,
      Source |-> field("source="), Target |-> field("target="),
      ReadOnly |-> p.readOnly]

\* the request CreateContainer hands to ContainerCreate, or the error it
\* returns before; Env in the order the map was iterated in
CreateContainer(c, envOrder) ==
  LET declared == [i \in 1..Len(c.Mounts) |-> EngineMount(c.Mounts[i], TRUE)]
      capAdd == IF Len(c.CapAdd) > 0 THEN c.CapAdd
                ELSE IF Len(c.Capabilities) > 0 THEN c.Capabilities ELSE <<>>
      securityOpt == IF Len(c.SecurityOpt) > 0 THEN c.SecurityOpt
                     ELSE IF Len(c.SecurityOpts) > 0 THEN c.SecurityOpts ELSE <<>>
  IN IF \E i \in 1..Len(declared) : declared[i].Target = <<>>
     THEN [request |-> NoRequest, err |-> "mount target is empty"]
     ELSE [request |->
             [NoRequest EXCEPT
                !.Image = c.Image, !.Cmd = c.Command,
                !.Env = [i \in 1..Len(envOrder) |->
                           <<envOrder[i], "=">> \o c.Environment[envOrder[i]]],
                !.WorkingDir = c.WorkspaceFolder, !.User = c.User, !.Tty = TRUE,
                !.Privileged = c.Privileged,
                !.Init = IF c.Init THEN Ptr(TRUE) ELSE NilPtr,
                !.Mounts = declared
                   \o (IF c.WorkspaceMount # <<>> /\ c.WorkspaceMount # <<"none">>
                       THEN <<EngineMount(c.WorkspaceMount, FALSE)>> ELSE <<>>),
                !.CapAdd = capAdd, !.SecurityOpt = securityOpt,
                !.Name = c.Name],
           err |-> ""]

ValidateInit ==
  /\ MergeIdle
  /\ ExtendsIdle
  /\ bpc = "given" /\ run = 0 /\ inDc = EmptyLit /\ wsRoot = <<>>
  /\ hostEnv = EmptyMap /\ managerMounts = <<>> /\ devContainer = EmptyLit
  /\ buildErr = "" /\ missing = <<>>
  /\ config \in ValidateConfigs
  /\ valid = "" /\ args = <<>> /\ prevConfig = EmptyConfig /\ prevArgs = <<>>

\* if err := cfg.Validate(); err != nil { return nil, err }
ValidateGiven ==
  /\ bpc = "given"
  /\ valid' = Validate(config)
  /\ bpc' = IF Validate(config) = "" THEN "accepted" ELSE "rejected"
  /\ UNCHANGED <<run, inDc, wsRoot, hostEnv, managerMounts, devContainer, buildErr,
                 missing, config, args, prevConfig, prevArgs, mergeVars, extVars, resVars, auxVars>>

\* return cfg.ToDockerRunArgs(), nil
EmitGiven ==
  /\ bpc = "accepted"
  /\ \E envOrder \in Orders(DOMAIN config.Environment) :
       args' = ToDockerRunArgs(config, envOrder)
  /\ bpc' = "returned"
  /\ UNCHANGED <<run, inDc, wsRoot, hostEnv, managerMounts, devContainer, buildErr,
                 missing, config, valid, prevConfig, prevArgs, mergeVars, extVars, resVars, auxVars>>

\* id, err := client.CreateContainer(ctx, cfg); the engine accepts the
\* request or refuses it
CreateGiven ==
  /\ bpc = "returned"
  /\ \E envOrder \in Orders(DOMAIN config.Environment), refused \in BOOLEAN :
       LET r == CreateContainer(config, envOrder)
       IN /\ request' = r.request
          /\ created' = IF r.err # "" THEN [id |-> <<>>, err |-> r.err]
                         ELSE IF refused
                           THEN [id |-> <<>>, err |-> "failed to create container"]
                         ELSE [id |-> <<"id">>, err |-> ""]
  /\ bpc' = "created"
  /\ UNCHANGED <<run, inDc, wsRoot, hostEnv, managerMounts, devContainer, buildErr,
                 missing, config, valid, args, prevConfig, prevArgs, mergeVars, extVars,
                 resVars, lifeVars, termVars>>

ValidateNext == ValidateGiven \/ EmitGiven \/ CreateGiven

SpecValidate == ValidateInit /\ [][ValidateNext]_vars

\* a mount or port string holds the lexeme tok
HasToken(s, tok) == \E i \in 1..Len(s) : s[i] = tok

Colons(s) == Cardinality({i \in 1..Len(s) : s[i] = ":"})

\* the plan Validate is to accept: an image, every mount with a type and a
\* target token, every port a bare integer or one colon-separated pair
Acceptable(c) ==
  /\ c.Image # <<>>
  /\ \A i \in 1..Len(c.Mounts) :
       HasToken(c.Mounts[i], "type=") /\ HasToken(c.Mounts[i], "target=")
  /\ \A i \in 1..Len(c.Ports) :
       \/ Colons(c.Ports[i]) = 1
       \/ Colons(c.Ports[i]) = 0 /\ Len(c.Ports[i]) = 1 /\ c.Ports[i][1] \in Numerals

Validated == bpc \in {"accepted", "rejected", "returned"}

\* C11: Validate fails on an empty image, on a mount string without a type
\* or without a target token, on a port string with more than one colon or
\* with none and not an integer, and succeeds otherwise; a plan with an
\* empty image gets the image error and no argument vector is produced
\* from it.
C11_ValidateDecides ==
  Validated =>
    /\ (valid = "") <=> Acceptable(config)
    /\ config.Image = <<>> => (valid = "image is required" /\ args = <<>>)
    /\ (valid # "" /\ config.Image # <<>>) =>
         valid \in {"mount missing type=", "mount missing target=", "invalid port format"}

\* C11's case: a plan with an image and well-formed mounts, rejected for a
\* port that holds no colon and is no integer.
C11_Witness ==
  /\ bpc = "rejected"
  /\ config.Image # <<>>
  /\ Len(config.Mounts) > 0
  /\ \A i \in 1..Len(config.Mounts) :
       HasToken(config.Mounts[i], "type=") /\ HasToken(config.Mounts[i], "target=")
  /\ valid = "invalid port format"
  /\ \E i \in 1..Len(config.Ports) : config.Ports[i] = <<"web">>
  /\ \A i \in 1..Len(config.Ports) : Colons(config.Ports[i]) <= 1

----------------------------------------------------------------------------
(* Properties of the mounts of the plan *)

\* the value a comma-joined mount string gives for key, "" when it has none
KeyValue(s, key) ==
  IF \E i \in 1..(Len(s) - 1) : s[i] = key /\ s[i + 1] # ","
    THEN LET i == CHOOSE k \in 1..(Len(s) - 1) : s[k] = key /\ s[k + 1] # ","
         IN <<s[i + 1]>>
    ELSE <<>>

\* what a declared mount describes: kind, source, target, read-only flag
Describes(e) ==
  IF e.kind = "str"
    THEN [kind |-> KeyValue(e.str, "type="), source |-> KeyValue(e.str, "source="),
          target |-> KeyValue(e.str, "target="), ro |-> HasToken(e.str, "readonly")]
    ELSE [kind |-> IF HasStr(e.m, "type") THEN e.m["type"].s ELSE <<>>,
          source |-> IF HasStr(e.m, "source") THEN e.m["source"].s ELSE <<>>,
          target |-> IF HasStr(e.m, "target") THEN e.m["target"].s ELSE <<>>,
          ro |-> "readonly" \in DOMAIN e.m /\ e.m["readonly"].kind = "bool"
                 /\ e.m["readonly"].b]

\* type=<k>[,source=<s>],target=<t>[,readonly]
CanonicalMount(d) ==
  <<"type=">> \o d.kind
  \o (IF d.source # <<>> THEN <<",", "source=">> \o d.source ELSE <<>>)
  \o <<",", "target=">> \o d.target
  \o (IF d.ro THEN <<",", "readonly">> ELSE <<>>)

\* C12: a mount written as a comma-joined string and a mount written as a
\* structured map that describe the same kind, source, target and read-only
\* flag give the same mount string in the plan, the canonical
\* type=<k>[,source=<s>],target=<t>[,readonly], whatever the key order of
\* the string.
C12_SameCanonicalString ==
  (BuiltOk /\ managerMounts = <<>> /\ Len(config.Mounts) = Len(inDc.Mounts)) =>
    \A i, j \in 1..Len(inDc.Mounts) :
      (/\ inDc.Mounts[i].kind = "str"
       /\ inDc.Mounts[j].kind = "map"
       /\ Describes(inDc.Mounts[i]) = Describes(inDc.Mounts[j])
       /\ Describes(inDc.Mounts[i]).kind # <<>>
       /\ Describes(inDc.Mounts[i]).target # <<>>)
      => /\ config.Mounts[i] = config.Mounts[j]
         /\ config.Mounts[j] = CanonicalMount(Describes(inDc.Mounts[j]))

----------------------------------------------------------------------------
(* The extends scenario: documents on disk that name each other by         *)
(* "extends", and a caller that resolves one of them with                  *)
(* LoadDevContainerWithExtends.  The recursion of the function is the call *)
(* stack; a path stands for the file name the path rules resolve the       *)
(* extends string to.                                                      *)

Paths == {"leaf", "mid", "root"}
LeafPath == "leaf"
MaxDepth == 5

MissingFile == [kind |-> "missing", doc |-> EmptyDoc, extends |-> NilPtr]
GarbledFile == [kind |-> "garbled", doc |-> EmptyDoc, extends |-> NilPtr]

\* the documents a file at path p may hold: its name and the values of its
\* environment are its own
ExtendsDocs(p) ==
  {[EmptyDoc EXCEPT !.name = Ptr(<<p>>), !.containerEnv = Ptr([k \in ks |-> <<p>>])] :
     ks \in SUBSET EnvKeys}
  \cup {[EmptyDoc EXCEPT !.name = Ptr(<<p>>)]}

FilesAt(p) ==
  {MissingFile, GarbledFile}
  \cup {[kind |-> "doc", doc |-> d, extends |-> e] :
          d \in ExtendsDocs(p), e \in {NilPtr} \cup {Ptr(q) : q \in Paths}}

FileSystems == {f \in [Paths -> UNION {FilesAt(p) : p \in Paths}] :
                  \A p \in Paths : f[p] \in FilesAt(p)}

Frame(p) == [path |-> p, pos |-> "enter", dc |-> NilPtr]
Top == stack[Len(stack)]
Pop == SubSeq(stack, 1, Len(stack) - 1)
Returned(d, e) ==
  /\ ret' = [dc |-> d, err |-> e]
  /\ stack' = Pop
  /\ epc' = IF Len(stack) = 1 THEN "done" ELSE epc

\* the merge with the document as the base and its ancestors as the override
MergeWithBaseSwapped(baseConfig, dc, eh, nh) == MergeDevContainers(dc, baseConfig, eh, nh)

\* dc = MergeDevContainers(baseConfig, dc)
MergeWithBase(baseConfig, dc, eh, nh) == MergeDevContainers(baseConfig, dc, eh, nh)

ExtendsInit ==
  /\ MergeIdle
  /\ BuildIdle
  /\ ResolveIdle
  /\ epc = "start"
  /\ fs \in FileSystems
  /\ stack = <<>>
  /\ ret = [dc |-> NilPtr, err |-> ""]

\* the caller calls LoadDevContainerWithExtends(path, nil)
CallResolver ==
  /\ epc = "start"
  /\ stack' = <<Frame(LeafPath)>>
  /\ epc' = "running"
  /\ UNCHANGED <<fs, ret, mergeVars, buildVars, resVars, auxVars>>

\* os.ReadFile or json.Unmarshal fails
ReadFails ==
  /\ epc = "running" /\ Top.pos = "enter"
  /\ fs[Top.path].kind # "doc"
  /\ Returned(NilPtr, IF fs[Top.path].kind = "missing"
                        THEN "failed to read devcontainer.json"
                        ELSE "failed to parse devcontainer.json")
  /\ UNCHANGED <<fs, mergeVars, buildVars, resVars, auxVars>>

\* the document has no extends: return dc, nil
LoadPlain ==
  /\ epc = "running" /\ Top.pos = "enter"
  /\ fs[Top.path].kind = "doc" /\ fs[Top.path].extends = NilPtr
  /\ LET al == Alloc(LoadDevContainer(fs[Top.path].doc), envHeap, ncbHeap)
     IN /\ envHeap' = al.eh
        /\ ncbHeap' = al.nh
        /\ Returned(Ptr(al.d), "")
  /\ UNCHANGED <<fs, mpc, inBase, inOverride, base, override, result, buildVars, resVars, auxVars>>

\* the document has extends: the function calls itself on the base path
CallBase ==
  /\ epc = "running" /\ Top.pos = "enter"
  /\ fs[Top.path].kind = "doc" /\ fs[Top.path].extends # NilPtr
  /\ Len(stack) < MaxDepth
  /\ LET al == Alloc(LoadDevContainer(fs[Top.path].doc), envHeap, ncbHeap)
     IN /\ envHeap' = al.eh
        /\ ncbHeap' = al.nh
        /\ stack' = Append([stack EXCEPT ![Len(stack)] =
                              [@ EXCEPT !.pos = "wait", !.dc = Ptr(al.d)]],
                           Frame(Deref(fs[Top.path].extends)))
  /\ UNCHANGED <<epc, fs, ret, mpc, inBase, inOverride, base, override, result,
                 buildVars, resVars, auxVars>>

\* the inner call returned an error
BaseFailed ==
  /\ epc = "running" /\ Top.pos = "wait"
  /\ ret.err # ""
  /\ Returned(NilPtr, "failed to load extends config")
  /\ UNCHANGED <<fs, mergeVars, buildVars, resVars, auxVars>>

\* the inner call returned baseConfig: merge and return
MergeBase ==
  /\ epc = "running" /\ Top.pos = "wait"
  /\ ret.err = ""
  /\ LET m == MergeWithBase(ret.dc, Top.dc, envHeap, ncbHeap)
     IN /\ envHeap' = m.eh
        /\ ncbHeap' = m.nh
        /\ Returned(m.r, "")
  /\ UNCHANGED <<fs, mpc, inBase, inOverride, base, override, result, buildVars, resVars, auxVars>>

ExtendsNext == CallResolver \/ ReadFails \/ LoadPlain \/ CallBase \/ BaseFailed \/ MergeBase

SpecExtends == ExtendsInit /\ [][ExtendsNext]_vars

\* C13: LoadDevContainerWithExtends terminates on every input, a cycle of
\* extends references being detected and answered with an error: the calls
\* in progress are at most one per file plus the call that meets the cycle.
C13_ResolutionBounded == Len(stack) <= Cardinality(Paths) + 1

\* the files the resolution of p reads, leaf first, following at most n
\* extends references
RECURSIVE ChainFrom(_, _)
ChainFrom(p, n) ==
  IF n > 0 /\ fs[p].kind = "doc" /\ fs[p].extends # NilPtr
    THEN <<p>> \o ChainFrom(Deref(fs[p].extends), n - 1)
    ELSE <<p>>

Chain == ChainFrom(LeafPath, Cardinality(Paths))
ChainReadable == \A i \in 1..Len(Chain) : fs[Chain[i]].kind = "doc"

\* MergeDevContainers folded over chain[1..i], the root ancestor chain[Len]
\* first and the leaf chain[1] last, on heaps of its own
RECURSIVE LeftFold(_, _)
LeftFold(chain, i) ==
  IF i = Len(chain)
    THEN LET al == Alloc(LoadDevContainer(fs[chain[i]].doc), <<>>, <<>>)
         IN [r |-> Ptr(al.d), eh |-> al.eh, nh |-> al.nh]
    ELSE LET acc == LeftFold(chain, i + 1)
             al == Alloc(LoadDevContainer(fs[chain[i]].doc), acc.eh, acc.nh)
         IN MergeDevContainers(acc.r, Ptr(al.d), al.eh, al.nh)

FoldValue(f) == Deep(Deref(f.r), f.eh, f.nh)

\* the documents of the chain that define environment key k, by position
Defining(k) ==
  {i \in 1..Len(Chain) :
     fs[Chain[i]].doc.containerEnv # NilPtr
     /\ k \in DOMAIN Deref(fs[Chain[i]].doc.containerEnv)}

Closest(k) == CHOOSE i \in Defining(k) : \A j \in Defining(k) : i <= j

ResolvedEnv ==
  IF Deep(Deref(ret.dc), envHeap, ncbHeap).ContainerEnv = NilPtr
    THEN EmptyMap
    ELSE Deref(Deep(Deref(ret.dc), envHeap, ncbHeap).ContainerEnv)

\* C14: for an extends chain of any depth the resolver returns the left
\* fold of MergeDevContainers from the root ancestor to the leaf: every
\* environment key has the value of the document closest to the leaf that
\* defines it, a key only an ancestor defines survives, and a missing or
\* unreadable document of the chain makes the resolution fail.
C14_LeftFold ==
  epc = "done" =>
    IF ChainReadable
      THEN /\ ret.err = ""
           /\ ret.dc # NilPtr
           /\ Deep(Deref(ret.dc), envHeap, ncbHeap) = FoldValue(LeftFold(Chain, 1))
           /\ DOMAIN ResolvedEnv = {k \in EnvKeys : Defining(k) # {}}
           /\ \A k \in DOMAIN ResolvedEnv :
                ResolvedEnv[k] = Deref(fs[Chain[Closest(k)]].doc.containerEnv)[k]
      ELSE ret.err # "" /\ ret.dc = NilPtr

\* C14's case: a chain of three documents resolved, where the leaf and the
\* root define K1 and only the root defines K2.
C14_Witness ==
  /\ epc = "done"
  /\ Len(Chain) = 3 /\ ChainReadable
  /\ Defining("K1") = {1, 3}
  /\ Defining("K2") = {3}
  /\ ResolvedEnv = [k \in EnvKeys |-> IF k = "K1" THEN <<"leaf">> ELSE <<Chain[3]>>]

----------------------------------------------------------------------------
(* Properties of the caller's descriptor *)

\* the descriptor the caller passes to BuildDockerRunCommand
PassedToBuild ==
  IF Len(managerMounts) > 0 THEN applyCustomMounts(inDc, managerMounts) ELSE inDc

\* C15: BuildDockerRunCommand and the ExpandVariables it calls leave the
\* caller's descriptor as it was passed: mounts, environment values, hooks,
\* workspace folder and workspace mount keep their unexpanded values, when
\* the build succeeds and when it fails.
C15_DescriptorUnchanged ==
  (BuiltOk \/ bpc = "failed") => devContainer = PassedToBuild

----------------------------------------------------------------------------
(* The localEnv scenario: a caller holds a string written from plain text  *)
(* and ${localEnv:NAME[:default]} references and calls                     *)
(* resolveLocalEnvVars on it.                                              *)

MaxSegments == 2

Lit(t) == [kind |-> "lit", text |-> t, name |-> <<>>, supplied |-> FALSE, def |-> <<>>]
Ref(n, sup, d) == [kind |-> "ref", text |-> <<>>, name |-> n, supplied |-> sup, def |-> d]

EnvNames == {<<"NOPE">>, <<"USER">>}

\* plain text, ${localEnv:N}, ${localEnv:N:dflt} and ${localEnv:N:}
Segments ==
  {Lit(<<"/x">>)}
  \cup {Ref(n, FALSE, <<>>) : n \in EnvNames}
  \cup {Ref(n, TRUE, d) : n \in EnvNames, d \in {<<>>, <<"dflt">>}}

\* a host environment: a name is unset, set to "" or set to a value
ResolveEnvs ==
  UNION {[ns -> {<<>>, <<"hv">>}] : ns \in SUBSET EnvNames}

\* the text of one piece
Written(g) ==
  IF g.kind = "lit" THEN g.text
  ELSE <<"$", "{", "localEnv", ":">> \o g.name
       \o (IF g.supplied THEN <<":">> \o g.def ELSE <<>>) \o <<"}">>

RECURSIVE WrittenAll(_)
WrittenAll(segs) ==
  IF segs = <<>> THEN <<>> ELSE Written(Head(segs)) \o WrittenAll(Tail(segs))

ResolveInit ==
  /\ MergeIdle
  /\ BuildIdle
  /\ AuxIdle
  /\ epc = "idle" /\ fs = EmptyMap /\ stack = <<>>
  /\ ret = [dc |-> NilPtr, err |-> ""]
  /\ rpc = "start"
  /\ rSegs \in SeqsUpTo(Segments, MaxSegments)
  /\ rEnv \in ResolveEnvs
  /\ rOut = [out |-> <<>>, missing |-> <<>>]

\* out, missing := resolveLocalEnvVars(in)
Resolve ==
  /\ rpc = "start"
  /\ rOut' = resolveLocalEnvVars(WrittenAll(rSegs), rEnv)
  /\ rpc' = "done"
  /\ UNCHANGED <<rSegs, rEnv, mergeVars, buildVars, extVars, auxVars>>

ResolveNext == Resolve

SpecResolve == ResolveInit /\ [][ResolveNext]_vars

\* what the rule of the claim gives for one piece
Substituted(g, env) ==
  IF g.kind = "lit" THEN g.text
  ELSE IF LookupEnv(env, g.name) # <<>> THEN LookupEnv(env, g.name)
  ELSE IF g.supplied THEN g.def
  ELSE Written(g)

RECURSIVE SubstitutedAll(_, _)
SubstitutedAll(segs, env) ==
  IF segs = <<>> THEN <<>>
  ELSE Substituted(Head(segs), env) \o SubstitutedAll(Tail(segs), env)

RECURSIVE MissingAll(_, _)
MissingAll(segs, env) ==
  IF segs = <<>> THEN <<>>
  ELSE (IF Head(segs).kind = "ref" /\ LookupEnv(env, Head(segs).name) = <<>>
           /\ ~Head(segs).supplied
          THEN <<Head(segs).name>> ELSE <<>>)
       \o MissingAll(Tail(segs), env)

\* C19: resolveLocalEnvVars replaces a ${localEnv:NAME[:default]} reference
\* by the host value when that is non-empty, otherwise by the default
\* whenever a default was supplied, an empty one included; only a reference
\* without default is left as written and has its NAME recorded as missing.
C19_DefaultWhenSupplied ==
  rpc = "done" =>
    /\ rOut.out = SubstitutedAll(rSegs, rEnv)
    /\ rOut.missing = MissingAll(rSegs, rEnv)

----------------------------------------------------------------------------
(* Properties of the workspace folder and the workspace mount of the plan *)

\* the values expansion can give to an override written as s
Expanded(s) == ExpandStrSet(s, GetStandardVariables(wsRoot), hostEnv)

NcbOverride(d, field) ==
  IF d.NonComposeBase # NilPtr THEN Deref(d.NonComposeBase)[field] ELSE NilPtr

\* C20: the workspace folder of the plan is the explicit override, the
\* non-compose override before the common field, and "/workspaces/" + the
\* base name of the workspace root without one; the workspace mount of the
\* plan is the explicit override, and without one
\* "type=bind,source=<absolute workspace root>,target=<workspace folder of
\* the plan>".
C20_WorkspaceDefaults ==
  BuiltOk =>
    /\ IF NcbOverride(PassedToBuild, "WorkspaceFolder") # NilPtr
         THEN config.WorkspaceFolder
                \in Expanded(Deref(NcbOverride(PassedToBuild, "WorkspaceFolder")))
       ELSE IF PassedToBuild.WorkspaceFolder # <<>>
         THEN config.WorkspaceFolder \in Expanded(PassedToBuild.WorkspaceFolder)
       ELSE config.WorkspaceFolder = <<"/", "workspaces", "/">> \o FilepathBase(wsRoot)
    /\ IF NcbOverride(PassedToBuild, "WorkspaceMount") # NilPtr
         THEN config.WorkspaceMount
                \in Expanded(Deref(NcbOverride(PassedToBuild, "WorkspaceMount")))
       ELSE IF PassedToBuild.WorkspaceMount # <<>>
         THEN config.WorkspaceMount \in Expanded(PassedToBuild.WorkspaceMount)
       ELSE config.WorkspaceMount =
              <<"type=", "bind", ",", "source=">> \o FilepathAbs(wsRoot)
              \o <<",", "target=">> \o config.WorkspaceFolder

\* C20's case: a non-compose folder override beside a different common
\* folder, no mount override, and a workspace root written with a trailing
\* separator
C20_Witness ==
  /\ BuiltOk
  /\ wsRoot = Root \o <<"/">>
  /\ NcbOverride(inDc, "WorkspaceFolder") = Ptr(<<"/app">>)
  /\ inDc.WorkspaceFolder = <<"/w">>
  /\ NcbOverride(inDc, "WorkspaceMount") = NilPtr
  /\ inDc.WorkspaceMount = <<>>
  /\ config.WorkspaceFolder = <<"/app">>
  /\ config.WorkspaceMount =
       <<"type=", "bind", ",", "source=", "/", "home", "/", "app", ",", "target=", "/app">>

----------------------------------------------------------------------------
(* ExtractDockerImage *)

\* the lexemes of the model that begin with "-"
DashWords ==
  {"--rm", "-it", "--name", "-v", "-w", "-e", "-p", "--mount", "--cap-add",
   "--security-opt", "--init", "--privileged", "-u", "--network", "--network=",
   "--gpus"}

\* strings.HasPrefix(arg, "-")
HasDashPrefix(arg) == arg # <<>> /\ arg[1] \in DashWords

\* flagsWithValues, among the flags of the model
flagsWithValues ==
  {<<"-e">>, <<"-p">>, <<"-v">>, <<"-w">>, <<"-u">>, <<"--name">>, <<"--mount">>,
   <<"--cap-add">>, <<"--security-opt">>, <<"--network">>}

\* the loop of ExtractDockerImage from index i (1-based), skipNext as given
RECURSIVE ExtractFrom(_, _, _)
ExtractFrom(a, i, skipNext) ==
  IF i > Len(a) THEN [image |-> <<>>, err |-> "image not found in docker command"]
  ELSE IF skipNext THEN ExtractFrom(a, i + 1, FALSE)
  ELSE IF HasDashPrefix(a[i]) THEN ExtractFrom(a, i + 1, a[i] \in flagsWithValues)
  ELSE [image |-> a[i], err |-> ""]

\* ExtractDockerImage(args): the scan starts after "run"
ExtractDockerImage(a) == ExtractFrom(a, 2, FALSE)

\* C21: for every DockerRunConfig that BuildDockerRunCommand built,
\* ExtractDockerImage of its ToDockerRunArgs returns the image of the
\* config, whatever name, environment, ports, mounts and extra run-args
\* the config carries.
C21_ExtractsImage ==
  bpc = "emitted" => ExtractDockerImage(args) = [image |-> config.Image, err |-> ""]

----------------------------------------------------------------------------
(* Lifecycle hooks: ParseLifecycleCommand, ToShellCommand,                  *)
(* ProcessLifecycleCommands, GetLifecycleScript                              *)

\* the decoded JSON value of a hook: null, a string, a list, a map, or
\* something else (a number)
CNil == [kind |-> "nil", str |-> <<>>, list |-> <<>>, m |-> EmptyMap]
CStr(s) == [kind |-> "str", str |-> s, list |-> <<>>, m |-> EmptyMap]
CArr(l) == [kind |-> "list", str |-> <<>>, list |-> l, m |-> EmptyMap]
CMap(mp) == [kind |-> "map", str |-> <<>>, list |-> <<>>, m |-> mp]
CNum == [kind |-> "num", str |-> <<>>, list |-> <<>>, m |-> EmptyMap]

\* an element of a list: a string or something else
AStr(s) == [isStr |-> TRUE, s |-> s]
ANum == [isStr |-> FALSE, s |-> <<>>]

\* the key ProcessLifecycleCommands files each field's command under
HookKey ==
  [InitializeCommand |-> "initializeCommand", OnCreateCommand |-> "onCreateCommand",
   UpdateContentCommand |-> "updateContentCommand",
   PostCreateCommand |-> "postCreateCommand", PostStartCommand |-> "postStartCommand",
   PostAttachCommand |-> "postAttachCommand"]

LifecycleCommand(type, command, cargs, commands) ==
  [Type |-> type, Command |-> command, Args |-> cargs, Commands |-> commands]

RECURSIVE ParseLifecycleCommand(_)
ParseLifecycleCommand(cmd) ==
  CASE cmd.kind = "nil" -> [cmd |-> NilPtr, err |-> ""]
    [] cmd.kind = "str" ->
         [cmd |-> Ptr(LifecycleCommand(<<"string">>, cmd.str, <<>>, EmptyMap)), err |-> ""]
    [] cmd.kind = "list" ->
         IF \E i \in 1..Len(cmd.list) : ~cmd.list[i].isStr
         THEN [cmd |-> NilPtr, err |-> "array element must be string"]
         ELSE [cmd |-> Ptr(LifecycleCommand(<<"array">>, <<>>,
                                            [i \in 1..Len(cmd.list) |-> cmd.list[i].s],
                                            EmptyMap)),
               err |-> ""]
    [] cmd.kind = "map" ->
         \* the error of a nested value is discarded, the value left out
         [cmd |-> Ptr(LifecycleCommand(<<"object">>, <<>>, <<>>,
                   [name \in {k \in DOMAIN cmd.m :
                                ParseLifecycleCommand(cmd.m[k]).cmd # NilPtr}
                      |-> Deref(ParseLifecycleCommand(cmd.m[name]).cmd)])),
          err |-> ""]
    [] OTHER -> [cmd |-> NilPtr, err |-> "unsupported command type"]

Quoted(arg) == IF Contains(arg, <<" ">>) THEN <<"\"">> \o arg \o <<"\"">> ELSE arg

ToShellCommand(lc) ==
  CASE lc.Type = <<"string">> -> lc.Command
    [] lc.Type = <<"array">> ->
         IF Len(lc.Args) = 0 THEN <<>>
         ELSE Join([i \in 1..Len(lc.Args) |-> Quoted(lc.Args[i])], <<" ">>)
    [] lc.Type = <<"object">> -> <<"# Multiple commands:">>
    [] OTHER -> <<>>

\* a hook whose value fails to parse is left out; the error returned is
\* always nil
ProcessLifecycleCommands(dc) ==
  [commands |->
     [key \in {HookKey[f] : f \in {g \in Hooks :
                 /\ dc[g].kind # "nil"
                 /\ ParseLifecycleCommand(dc[g]).err = ""
                 /\ ParseLifecycleCommand(dc[g]).cmd # NilPtr}}
        |-> Deref(ParseLifecycleCommand(
                    dc[CHOOSE f \in Hooks : HookKey[f] = key]).cmd)],
   err |-> ""]

\* an order with the hooks of "create" reversed and the attach and start
\* hooks first
LifecycleOrderAttachFirst(phase) ==
  CASE phase = <<"create">> ->
         <<"postCreateCommand", "updateContentCommand", "onCreateCommand",
           "initializeCommand">>
    [] phase = <<"start">> -> <<"postStartCommand">>
    [] phase = <<"attach">> -> <<"postAttachCommand">>
    [] phase = <<>> ->
         <<"postAttachCommand", "postStartCommand", "initializeCommand",
           "onCreateCommand", "updateContentCommand", "postCreateCommand">>
    [] OTHER -> <<>>

\* the order GetLifecycleScript walks the hooks of each phase in
LifecycleOrder(phase) ==
  CASE phase = <<"create">> ->
         <<"initializeCommand", "onCreateCommand", "updateContentCommand",
           "postCreateCommand">>
    [] phase = <<"start">> -> <<"postStartCommand">>
    [] phase = <<"attach">> -> <<"postAttachCommand">>
    [] phase = <<>> ->
         <<"initializeCommand", "onCreateCommand", "updateContentCommand",
           "postCreateCommand", "postStartCommand", "postAttachCommand">>
    [] OTHER -> <<>>

KnownPhases == {<<"create">>, <<"start">>, <<"attach">>, <<>>}

\* what one hook adds to the script; term is what follows its shell line
WriteHook(commands, name, term) ==
  IF name \in DOMAIN commands
  THEN <<"# ", name, "\n">>
       \o (IF ToShellCommand(commands[name]) # <<>>
           THEN ToShellCommand(commands[name]) \o term ELSE <<>>)
  ELSE <<>>

RECURSIVE WriteHooks(_, _, _)
WriteHooks(commands, order, term) ==
  IF order = <<>> THEN <<>>
  ELSE WriteHook(commands, Head(order), term) \o WriteHooks(commands, Tail(order), term)

GetLifecycleScript(dc, phase) ==
  IF ProcessLifecycleCommands(dc).err # ""
  THEN [script |-> <<>>, err |-> ProcessLifecycleCommands(dc).err]
  ELSE IF phase \notin KnownPhases
  THEN [script |-> <<>>, err |-> "unknown phase"]
  ELSE [script |-> <<"#!/bin/sh", "\n", "set -e", "\n", "\n">>
                   \o WriteHooks(ProcessLifecycleCommands(dc).commands,
                                 LifecycleOrder(phase),
                                 IF phase = <<>> THEN <<"\n", "\n">> ELSE <<"\n">>),
        err |-> ""]

\* hook values: valid ones of each shape, and ones of a wrong shape at the
\* top level, in a list, and one and two levels inside a map
GoodHookValues ==
  {CStr(<<"make">>), CStr(<<>>), CArr(<<AStr(<<"npm">>), AStr(<<"run", " ", "build">>)>>),
   CArr(<<>>), CMap([server |-> CStr(<<"make">>)])}

BadHookValues ==
  {CNum, CArr(<<AStr(<<"npm">>), ANum>>), CMap([server |-> CNum]),
   CMap([server |-> CMap([db |-> CArr(<<ANum>>)])])}

Phases == KnownPhases \cup {<<"stop">>}

\* descriptors: a set of hooks given one value, the others absent or a
\* plain string
LifecycleDescriptors ==
  {[f \in Hooks |-> IF f \in hs THEN v ELSE w] :
     hs \in SUBSET Hooks, v \in GoodHookValues \cup BadHookValues,
     w \in {CNil, CStr(<<"ls">>)}}

LifeInit ==
  /\ MergeIdle
  /\ BuildIdle
  /\ epc = "idle" /\ fs = EmptyMap /\ stack = <<>>
  /\ ret = [dc |-> NilPtr, err |-> ""]
  /\ rpc = "idle" /\ rSegs = <<>> /\ rEnv = EmptyMap
  /\ rOut = [out |-> <<>>, missing |-> <<>>]
  /\ CreateIdle
  /\ TermIdle
  /\ lpc = "start"
  /\ lDc \in LifecycleDescriptors
  /\ lPhase \in Phases
  /\ lHook \in Hooks
  /\ lParsed = [cmd |-> NilPtr, err |-> ""]
  /\ lOut = [script |-> <<>>, err |-> ""]

\* cmd, err := ParseLifecycleCommand(dc.<hook>)
ParseHook ==
  /\ lpc = "start"
  /\ lParsed' = ParseLifecycleCommand(lDc[lHook])
  /\ lpc' = "parsed"
  /\ UNCHANGED <<lDc, lPhase, lHook, lOut, mergeVars, buildVars, extVars, resVars,
                 createVars, termVars>>

\* script, err := GetLifecycleScript(dc, phase)
GetScript ==
  /\ lpc = "parsed"
  /\ lOut' = GetLifecycleScript(lDc, lPhase)
  /\ lpc' = "done"
  /\ UNCHANGED <<lDc, lPhase, lHook, lParsed, mergeVars, buildVars, extVars, resVars,
                 createVars, termVars>>

LifeNext == ParseHook \/ GetScript

SpecLifecycle == LifeInit /\ [][LifeNext]_vars

----------------------------------------------------------------------------
(* Properties of the lifecycle script *)

\* a valid command value: a string, a list of strings, or a map of valid
\* command values
RECURSIVE ValidCommand(_)
ValidCommand(v) ==
  CASE v.kind = "str" -> TRUE
    [] v.kind = "list" -> \A i \in 1..Len(v.list) : v.list[i].isStr
    [] v.kind = "map" -> \A k \in DOMAIN v.m : ValidCommand(v.m[k])
    [] OTHER -> FALSE

DefinedHooks(dc) == {f \in Hooks : dc[f].kind # "nil"}

\* the names on the "# name" lines of a script, in the order they appear
RECURSIVE HeadersFrom(_, _)
HeadersFrom(s, i) ==
  IF i > Len(s) THEN <<>>
  ELSE IF s[i] = "# " THEN <<s[i + 1]>> \o HeadersFrom(s, i + 2)
  ELSE HeadersFrom(s, i + 1)

\* the hooks of a phase, in the order the claim gives
PhaseHooks(phase) ==
  CASE phase = <<"create">> ->
         <<"InitializeCommand", "OnCreateCommand", "UpdateContentCommand",
           "PostCreateCommand">>
    [] phase = <<"start">> -> <<"PostStartCommand">>
    [] phase = <<"attach">> -> <<"PostAttachCommand">>
    [] phase = <<>> ->
         <<"InitializeCommand", "OnCreateCommand", "UpdateContentCommand",
           "PostCreateCommand", "PostStartCommand", "PostAttachCommand">>

RECURSIVE KeysOfDefined(_, _)
KeysOfDefined(fields, dc) ==
  IF fields = <<>> THEN <<>>
  ELSE (IF dc[Head(fields)].kind # "nil" THEN <<HookKey[Head(fields)]>> ELSE <<>>)
       \o KeysOfDefined(Tail(fields), dc)

\* C22: for a descriptor whose defined hooks are all valid command values,
\* the script of phase "create" carries the defined hooks among initialize,
\* on-create, update-content, post-create in that order, the script of
\* "start" only post-start, the script of "attach" only post-attach, the
\* script of the empty phase all six in order; any other phase returns an
\* error and no script.
C22_PhaseOrder ==
  (lpc = "done" /\ \A f \in DefinedHooks(lDc) : ValidCommand(lDc[f])) =>
    IF lPhase \in {<<"create">>, <<"start">>, <<"attach">>, <<>>}
    THEN /\ lOut.err = ""
         /\ HeadersFrom(lOut.script, 1) = KeysOfDefined(PhaseHooks(lPhase), lDc)
    ELSE lOut.err # "" /\ lOut.script = <<>>

\* a create script of a descriptor that defines all six hooks
C22_Witness ==
  /\ lpc = "done" /\ lPhase = <<"create">>
  /\ DefinedHooks(lDc) = Hooks
  /\ \A f \in Hooks : ValidCommand(lDc[f])
  /\ HeadersFrom(lOut.script, 1) =
       <<"initializeCommand", "onCreateCommand", "updateContentCommand",
         "postCreateCommand">>

\* C26: ParseLifecycleCommand returns no error exactly for an absent value
\* and for valid command values (a string, a list of strings, a map of
\* valid command values at every depth), and a descriptor with a defined
\* hook of any other shape does not get a script without an error.
C26_TypeErrors ==
  /\ lpc \in {"parsed", "done"} =>
       (lParsed.err = "" <=> (lDc[lHook].kind = "nil" \/ ValidCommand(lDc[lHook])))
  /\ (lpc = "done" /\ \E f \in DefinedHooks(lDc) : ~ValidCommand(lDc[f])) =>
       lOut.err # ""

----------------------------------------------------------------------------
(* Properties of the plan's mounts *)

\* the word a mount string carries after a key, <<>> when the key is
\* absent or nothing follows it
MountField(s, key) ==
  IF \E i \in 1..Len(s) : s[i] = key
  THEN LET i == CHOOSE j \in 1..Len(s) : s[j] = key /\ \A k \in 1..(j - 1) : s[k] # key
       IN IF i + 1 <= Len(s) /\ s[i + 1] # "," THEN <<s[i + 1]>> ELSE <<>>
  ELSE <<>>

MountKinds == {<<"bind">>, <<"volume">>, <<"tmpfs">>}

\* C23: every mount of a plan that was built and passed Validate carries a
\* type token with a kind among bind, volume, tmpfs, and a non-empty target.
C23_MountsWellFormed ==
  (bpc \in {"validated", "emitted"} /\ buildErr = "" /\ valid = "") =>
    \A i \in 1..Len(config.Mounts) :
      /\ Contains(config.Mounts[i], <<"type=">>)
      /\ MountField(config.Mounts[i], "type=") \in MountKinds
      /\ MountField(config.Mounts[i], "target=") # <<>>

ReadOnlyFlag(m, key) == key \in DOMAIN m /\ m[key].kind = "bool" /\ m[key].b

EndsWith(s, suffix) ==
  Len(s) >= Len(suffix) /\ SubSeq(s, Len(s) - Len(suffix) + 1, Len(s)) = suffix

\* C24: in a built plan the string of a structured mount ends in ",readonly"
\* exactly when the mount's read-only flag is true, whether the flag is
\* spelled readOnly (descriptor files) or readonly (mounts the manager
\* injects).
C24_ReadOnlyKept ==
  (bpc = "built" /\ buildErr = "" /\ Len(config.Mounts) = Len(devContainer.Mounts)) =>
    \A i \in 1..Len(config.Mounts) :
      devContainer.Mounts[i].kind = "map" =>
        (EndsWith(config.Mounts[i], <<",", "readonly">>)
           <=> (ReadOnlyFlag(devContainer.Mounts[i].m, "readOnly")
                \/ ReadOnlyFlag(devContainer.Mounts[i].m, "readonly")))

----------------------------------------------------------------------------
(* Properties of variable expansion *)

\* C25: whatever order the variable names are processed in, a containerEnv
\* value written as the bare reference $localWorkspaceFolderBasename comes
\* out as the value of localWorkspaceFolderBasename, the base name of the
\* workspace folder.
C25_OrderIndependent ==
  (bpc = "built" /\ buildErr = "" /\ inDc.ContainerEnv # NilPtr) =>
    \A k \in DOMAIN Deref(inDc.ContainerEnv) :
      Deref(inDc.ContainerEnv)[k] = BareBasename =>
        /\ k \in DOMAIN config.Environment
        /\ config.Environment[k] = FilepathBase(wsRoot)

----------------------------------------------------------------------------
(* Properties of the argument vector *)

\* a flag followed by each value in turn
RECURSIVE Flagged(_, _)
Flagged(flag, values) ==
  IF values = <<>> THEN <<>>
  ELSE <<flag, Head(values)>> \o Flagged(flag, Tail(values))

RECURSIVE Flatten(_)
Flatten(groups) == IF groups = <<>> THEN <<>> ELSE Head(groups) \o Flatten(Tail(groups))

\* the groups of the claim for a plan, in the claimed order, the -e flags
\* in the order envOrder
ArgGroups(c, envOrder) ==
  << << <<"run">>, <<"--rm">>, <<"-it">> >>,
     IF c.Name = <<>> THEN <<>> ELSE << <<"--name">>, c.Name >>,
     IF c.WorkspaceMount \in {<<>>, <<"none">>} THEN <<>> ELSE << <<"-v">>, c.WorkspaceMount >>,
     IF c.WorkspaceFolder = <<>> THEN <<>> ELSE << <<"-w">>, c.WorkspaceFolder >>,
     Flagged(<<"-e">>, [i \in 1..Len(envOrder) |->
                          <<envOrder[i], "=">> \o c.Environment[envOrder[i]]]),
     Flagged(<<"-p">>, c.Ports),
     c.RunArgs,
     Flagged(<<"--mount">>, c.Mounts),
     Flagged(<<"--cap-add">>, IF c.CapAdd # <<>> THEN c.CapAdd ELSE c.Capabilities),
     Flagged(<<"--security-opt">>,
             IF c.SecurityOpt # <<>> THEN c.SecurityOpt ELSE c.SecurityOpts),
     IF c.Init THEN << <<"--init">> >> ELSE <<>>,
     IF c.Privileged THEN << <<"--privileged">> >> ELSE <<>>,
     IF c.User = <<>> THEN <<>> ELSE << <<"-u">>, c.User >>,
     << c.Image >>,
     c.Command >>

\* C27: the argument vector is "run --rm -it", then --name, the workspace
\* mount, -w, the -e flags, the -p flags in plan order, the extra run-args,
\* the --mount flags in plan order, --cap-add, --security-opt, --init,
\* --privileged, -u, the image and the command tokens, in that order; a
\* group is absent when its field is empty or false, the workspace mount
\* also when it is "none"; the image is the last token before the command
\* tokens.
C27_GroupOrder ==
  bpc = "returned" =>
    /\ \E envOrder \in Orders(DOMAIN config.Environment) :
         args = Flatten(ArgGroups(config, envOrder))
    /\ args[Len(args) - Len(config.Command)] = config.Image

\* a vector for a plan with every group present
C27_Witness ==
  /\ bpc = "returned"
  /\ config.Name # <<>> /\ config.WorkspaceMount \notin {<<>>, <<"none">>}
  /\ config.WorkspaceFolder # <<>> /\ DOMAIN config.Environment # {}
  /\ Len(config.Ports) = 2 /\ config.RunArgs # <<>> /\ Len(config.Mounts) = 2
  /\ config.CapAdd # <<>> /\ config.SecurityOpt # <<>>
  /\ config.Init /\ config.Privileged /\ config.User # <<>>
  /\ config.Command # <<>>
  /\ Len(args) = 34

----------------------------------------------------------------------------
(* The engine request against the argument vector *)

Requested == bpc = "created" /\ created.err # "mount target is empty"

\* the settings other than ports and run-args
CarriesBasics ==
  /\ request.Image = config.Image
  /\ request.Cmd = config.Command
  /\ request.WorkingDir = config.WorkspaceFolder
  /\ request.User = config.User
  /\ request.Name = config.Name
  /\ request.Privileged = config.Privileged
  /\ (request.Init # NilPtr) <=> config.Init
  /\ {request.Env[i] : i \in 1..Len(request.Env)}
       = {<<k, "=">> \o config.Environment[k] : k \in DOMAIN config.Environment}
  /\ Len(request.Mounts)
       = Len(config.Mounts)
         + (IF config.WorkspaceMount \in {<<>>, <<"none">>} THEN 0 ELSE 1)
  /\ \A i \in 1..Len(config.Mounts) :
       /\ Contains(config.Mounts[i], <<"type=">> \o request.Mounts[i].Type)
       /\ Contains(config.Mounts[i], <<"target=">> \o request.Mounts[i].Target)
  /\ request.CapAdd = (IF config.CapAdd # <<>> THEN config.CapAdd ELSE config.Capabilities)
  /\ request.SecurityOpt
       = (IF config.SecurityOpt # <<>> THEN config.SecurityOpt ELSE config.SecurityOpts)

\* C28: the request CreateContainer makes for a plan carries what
\* ToDockerRunArgs emits for it: image, command, working directory, user,
\* name, privileged, init, environment, the declared mounts and the
\* workspace mount, capabilities, security options, and also a port binding
\* for the plan's ports and the network the run-args select.
C28_RequestCarriesPlan ==
  Requested =>
    /\ CarriesBasics
    /\ Len(config.Ports) > 0 => request.PortBindings # <<>>
    /\ config.RunArgs = << <<"--network">>, <<"host">> >> =>
         request.NetworkMode = <<"host">>

----------------------------------------------------------------------------
(* Terminal attachment: TerminalAttachment.Start, HandleResize, Cleanup     *)

MaxResizes == 1
MaxCleanups == 1

\* errCh := make(chan error, 2)
ErrChCapacity == 2

\* a channel made with room for one result
ChanHasRoomForOne(ch) == Len(ch) < 1

\* whether a send on the channel goes through without a receiver
ChanHasRoom(ch) == Len(ch) < ErrChCapacity

\* Cleanup without "t.oldState = nil"
CleanupKeepsOldState(old, mode) ==
  IF old # NilPtr THEN [oldState |-> old, termMode |-> Deref(old)]
  ELSE [oldState |-> old, termMode |-> mode]

\* t.Cleanup(): restore the terminal to the saved state and forget it
Cleanup(old, mode) ==
  IF old # NilPtr THEN [oldState |-> NilPtr, termMode |-> Deref(old)]
  ELSE [oldState |-> old, termMode |-> mode]

TermInit ==
  /\ MergeIdle
  /\ BuildIdle
  /\ epc = "idle" /\ fs = EmptyMap /\ stack = <<>>
  /\ ret = [dc |-> NilPtr, err |-> ""]
  /\ rpc = "idle" /\ rSegs = <<>> /\ rEnv = EmptyMap
  /\ rOut = [out |-> <<>>, missing |-> <<>>]
  /\ LifeIdle
  /\ CreateIdle
  /\ tpc = "call" /\ startErr = ""
  /\ isTerminal \in BOOLEAN
  /\ termMode = "cooked" /\ oldState = NilPtr /\ respOpen = FALSE
  /\ ctxDone = FALSE /\ resizeDone = FALSE
  /\ resizePc = "none" /\ resizes = 0
  /\ copyPc = [g \in Copiers |-> "none"]
  /\ copyErr = [g \in Copiers |-> "nil"]
  /\ errCh = <<>> /\ waitPc = "none"
  /\ cleanups = 0

termOthers == <<mergeVars, buildVars, extVars, resVars, lifeVars, createVars>>

\* Start up to "defer t.Cleanup()": not a terminal, MakeRaw fails, or the
\* terminal is raw and its old state saved
EnterRaw ==
  /\ tpc = "call"
  /\ \/ /\ ~isTerminal
        /\ startErr' = "not running in a terminal"
        /\ tpc' = "returned"
        /\ UNCHANGED <<termMode, oldState>>
     \/ /\ isTerminal
        /\ startErr' = "failed to set terminal to raw mode"
        /\ tpc' = "returned"
        /\ UNCHANGED <<termMode, oldState>>
     \/ /\ isTerminal
        /\ termMode' = "raw"
        /\ oldState' = Ptr(termMode)
        /\ tpc' = "raw"
        /\ UNCHANGED startErr
  /\ UNCHANGED <<isTerminal, respOpen, ctxDone, resizeDone, resizePc, resizes, copyPc,
                 copyErr, errCh, waitPc, cleanups, termOthers>>

\* resp, err = t.client.ContainerAttach(...): on an error Start returns and
\* the deferred Cleanup runs
Attach ==
  /\ tpc = "raw"
  /\ \/ /\ startErr' = "failed to attach to container"
        /\ tpc' = "returned"
        /\ oldState' = Cleanup(oldState, termMode).oldState
        /\ termMode' = Cleanup(oldState, termMode).termMode
        /\ UNCHANGED respOpen
     \/ /\ respOpen' = TRUE
        /\ tpc' = "attached"
        /\ UNCHANGED <<startErr, oldState, termMode>>
  /\ UNCHANGED <<isTerminal, ctxDone, resizeDone, resizePc, resizes, copyPc, copyErr,
                 errCh, waitPc, cleanups, termOthers>>

\* go t.HandleResize(resizeCtx); errCh := make(chan error, 2); the two copy
\* goroutines; ContainerWait
Spawn ==
  /\ tpc = "attached"
  /\ resizePc' = "init"
  /\ copyPc' = [g \in Copiers |-> "copying"]
  /\ errCh' = <<>>
  /\ waitPc' = "waiting"
  /\ tpc' = "select"
  /\ UNCHANGED <<startErr, isTerminal, termMode, oldState, respOpen, ctxDone, resizeDone,
                 resizes, copyErr, cleanups, termOthers>>

\* Start returns err from the select: the deferred cancelResize, resp.Close
\* and Cleanup run
ReturnFromSelect(err) ==
  /\ startErr' = err
  /\ tpc' = "returned"
  /\ resizeDone' = TRUE
  /\ respOpen' = FALSE
  /\ oldState' = Cleanup(oldState, termMode).oldState
  /\ termMode' = Cleanup(oldState, termMode).termMode

\* case err := <-errCh
RecvErr ==
  /\ tpc = "select"
  /\ errCh # <<>>
  /\ errCh' = Tail(errCh)
  /\ ReturnFromSelect(IF Head(errCh) = "error" THEN "I/O error" ELSE "")
  /\ UNCHANGED <<isTerminal, ctxDone, resizePc, resizes, copyPc, copyErr, waitPc,
                 cleanups, termOthers>>

\* case err := <-errWaitCh
RecvWaitErr ==
  /\ tpc = "select"
  /\ waitPc = "waitError"
  /\ waitPc' = "received"
  /\ ReturnFromSelect("container wait error")
  /\ UNCHANGED <<isTerminal, ctxDone, resizePc, resizes, copyPc, copyErr, errCh,
                 cleanups, termOthers>>

\* case <-statusCh
RecvStatus ==
  /\ tpc = "select"
  /\ waitPc = "exited"
  /\ waitPc' = "received"
  /\ ReturnFromSelect("")
  /\ UNCHANGED <<isTerminal, ctxDone, resizePc, resizes, copyPc, copyErr, errCh,
                 cleanups, termOthers>>

\* case <-ctx.Done()
RecvCtxDone ==
  /\ tpc = "select"
  /\ ctxDone
  /\ ReturnFromSelect("context canceled")
  /\ UNCHANGED <<isTerminal, ctxDone, resizePc, resizes, copyPc, copyErr, errCh, waitPc,
                 cleanups, termOthers>>

Select == RecvErr \/ RecvWaitErr \/ RecvStatus \/ RecvCtxDone

\* HandleResize up to its loop: signal.Notify and the initial resize
ResizeStart ==
  /\ resizePc = "init"
  /\ resizePc' = "loop"
  /\ UNCHANGED <<tpc, startErr, isTerminal, termMode, oldState, respOpen, ctxDone,
                 resizeDone, resizes, copyPc, copyErr, errCh, waitPc, cleanups, termOthers>>

\* case <-sigCh: t.resize()
ResizeSignal ==
  /\ resizePc = "loop"
  /\ resizes < MaxResizes
  /\ resizes' = resizes + 1
  /\ UNCHANGED <<tpc, startErr, isTerminal, termMode, oldState, respOpen, ctxDone,
                 resizeDone, resizePc, copyPc, copyErr, errCh, waitPc, cleanups, termOthers>>

\* case <-ctx.Done(): return; resizeCtx is done when it or its parent is
\* cancelled
ResizeReturn ==
  /\ resizePc = "loop"
  /\ resizeDone \/ ctxDone
  /\ resizePc' = "done"
  /\ UNCHANGED <<tpc, startErr, isTerminal, termMode, oldState, respOpen, ctxDone,
                 resizeDone, resizes, copyPc, copyErr, errCh, waitPc, cleanups, termOthers>>

\* _, err := io.Copy(...) returns in a copy goroutine
CopyEnds(g) ==
  /\ copyPc[g] = "copying"
  /\ \E r \in {"nil", "error"} : copyErr' = [copyErr EXCEPT ![g] = r]
  /\ copyPc' = [copyPc EXCEPT ![g] = "sending"]
  /\ UNCHANGED <<tpc, startErr, isTerminal, termMode, oldState, respOpen, ctxDone,
                 resizeDone, resizePc, resizes, errCh, waitPc, cleanups, termOthers>>

\* errCh <- err
CopySends(g) ==
  /\ copyPc[g] = "sending"
  /\ ChanHasRoom(errCh)
  /\ errCh' = Append(errCh, copyErr[g])
  /\ copyPc' = [copyPc EXCEPT ![g] = "done"]
  /\ UNCHANGED <<tpc, startErr, isTerminal, termMode, oldState, respOpen, ctxDone,
                 resizeDone, resizePc, resizes, copyErr, waitPc, cleanups, termOthers>>

\* the engine reports on the channels of ContainerWait: the container exited,
\* or waiting failed
WaitReports ==
  /\ waitPc = "waiting"
  /\ waitPc' \in {"exited", "waitError"}
  /\ UNCHANGED <<tpc, startErr, isTerminal, termMode, oldState, respOpen, ctxDone,
                 resizeDone, resizePc, resizes, copyPc, copyErr, errCh, cleanups,
                 termOthers>>

\* the caller cancels the context it passed to Start
CancelContext ==
  /\ tpc \notin {"idle", "returned"}
  /\ ~ctxDone
  /\ ctxDone' = TRUE
  /\ UNCHANGED <<tpc, startErr, isTerminal, termMode, oldState, respOpen, resizeDone,
                 resizePc, resizes, copyPc, copyErr, errCh, waitPc, cleanups, termOthers>>

\* the caller calls t.Cleanup() on an attachment that has not started or
\* whose Start returned
CleanupCall ==
  /\ tpc \in {"call", "returned"}
  /\ cleanups < MaxCleanups
  /\ cleanups' = cleanups + 1
  /\ oldState' = Cleanup(oldState, termMode).oldState
  /\ termMode' = Cleanup(oldState, termMode).termMode
  /\ UNCHANGED <<tpc, startErr, isTerminal, respOpen, ctxDone, resizeDone, resizePc,
                 resizes, copyPc, copyErr, errCh, waitPc, termOthers>>

TermNext ==
  \/ EnterRaw \/ Attach \/ Spawn \/ Select
  \/ ResizeStart \/ ResizeSignal \/ ResizeReturn
  \/ \E g \in Copiers : CopyEnds(g) \/ CopySends(g)
  \/ WaitReports \/ CancelContext \/ CleanupCall

SpecTerminal == TermInit /\ [][TermNext]_vars

\* the scheduler runs every goroutine that can take a step: Start itself,
\* HandleResize, and a copy goroutine that has a result to send
SpecTerminalFair ==
  /\ SpecTerminal
  /\ WF_vars(EnterRaw \/ Attach \/ Spawn \/ Select)
  /\ WF_vars(ResizeStart)
  /\ WF_vars(ResizeReturn)
  /\ \A g \in Copiers : WF_vars(CopySends(g))

----------------------------------------------------------------------------
(* Properties of the terminal attachment *)

\* Start returned after it had switched the terminal to raw mode
ReturnedFromRaw ==
  /\ tpc = "returned"
  /\ startErr \notin {"not running in a terminal", "failed to set terminal to raw mode"}

\* C29: whenever Start has returned after switching the terminal to raw
\* mode, by whichever path, the terminal is back in the mode it was in and
\* t.oldState is nil; and a Cleanup call on an attachment with no stored
\* state (after Start returned, or never in raw mode) changes neither.
C29_TerminalRestored ==
  /\ [](ReturnedFromRaw => (termMode = "cooked" /\ oldState = NilPtr))
  /\ [][(cleanups' # cleanups /\ oldState = NilPtr) =>
          (termMode' = termMode /\ oldState' = oldState)]_vars

\* Start returned from the select because the context was cancelled, and
\* the caller called Cleanup once more
C29_Witness ==
  /\ tpc = "returned" /\ startErr = "context canceled"
  /\ cleanups = 1
  /\ termMode = "cooked" /\ oldState = NilPtr

\* one of the four completion events of the select has happened
EventReady ==
  errCh # <<>> \/ waitPc \in {"exited", "waitError"} \/ ctxDone

\* C30: in every interleaving, once one of the four completion events
\* (a copy result on the error channel, a wait error, the container's exit,
\* the context's cancellation) has happened Start returns; after Start has
\* returned the resize goroutine terminates; and a copy goroutine that has
\* a result to send is never blocked on the error channel: once Start has
\* returned there is room for its result, and it completes the send.
C30_NoGoroutineStuck ==
  /\ (tpc = "select" /\ EventReady) ~> (tpc = "returned")
  /\ (tpc = "returned" /\ resizePc \in {"init", "loop"}) ~> (resizePc = "done")
  /\ [](tpc = "returned" =>
          \A g \in Copiers : copyPc[g] = "sending" => Len(errCh) < ErrChCapacity)
  /\ \A g \in Copiers : (copyPc[g] = "sending") ~> (copyPc[g] = "done")

\* Start has returned, the resize goroutine is done, and both copy
\* goroutines have sent their results after Start returned on another event
C30_Witness ==
  /\ tpc = "returned" /\ waitPc = "received"
  /\ resizePc = "done"
  /\ \A g \in Copiers : copyPc[g] = "done"
  /\ Len(errCh) = 2

====
